---- MODULE Spec2Model ----
(***************************************************************************)
(* PHP server manager with VLAN support: the process supervisor (App), the *)
(* VLAN manager (VLANManager), the HTTP handlers that orchestrate them and *)
(* the persisted configuration.                                            *)
(*                                                                         *)
(* Go strings are sequences of one-character strings, so that the string   *)
(* conversions of the code (strconv.Atoi, strconv.Itoa, fmt.Sprintf,       *)
(* strings.Replace) are computed and not assumed.                          *)
(***************************************************************************)
EXTENDS Integers, Sequences, FiniteSets, TLC

VARIABLES servers, nextID, processes, mu, savers, disk,
          interfaces, portToVLAN, kernel,
          procs, th, boots, issued, step,
          sessions, now, logins, loggedOut, cleaners, tok, held, vmcall,
          path, lockA, lockV

\* the session table of the AuthMiddleware, the clock, what the goroutine
\* of a request carries through the middleware and GetServers, and the last
\* call on the VLAN manager
apiVars ==
    <<sessions, now, logins, loggedOut, cleaners, tok, held, vmcall,
      path, lockA, lockV>>

vars == <<servers, nextID, processes, mu, savers, disk,
          interfaces, portToVLAN, kernel, procs, th, boots, issued, step,
          apiVars>>

(***************************************************************************)
(* Bounds of the model.                                                    *)
(***************************************************************************)
NumThreads == 2
MaxID == 2
MaxRaceID == 1
MaxSysID == 1
MaxProcs == 2
MaxSaves == 1
MaxBoots == 1
MaxApiID == 1
MaxTokens == 2
MaxCleaners == 1
MaxTime == 48
TickHours == 12
MaxSpawned == 1

Threads == 1..NumThreads

\* the goroutines of the lock model: those of the requests, and those the
\* go statements start
Goroutines == 1..(NumThreads + MaxSpawned)

\* the holder of a free mutex
Nobody == 0
Slots == 1..MaxProcs

(***************************************************************************)
(* Strings.                                                                *)
(***************************************************************************)
Digits == <<"0", "1", "2", "3", "4", "5", "6", "7", "8", "9">>

IsDigit(c) == \E i \in 1..10 : Digits[i] = c

DigitVal(c) == (CHOOSE i \in 1..10 : Digits[i] = c) - 1

RECURSIVE DigitsVal(_)
DigitsVal(s) ==
    IF s = <<>> THEN 0
    ELSE 10 * DigitsVal(SubSeq(s, 1, Len(s) - 1)) + DigitVal(s[Len(s)])

AllDigits(s) == s # <<>> /\ \A i \in 1..Len(s) : IsDigit(s[i])

\* strconv.Atoi: optional sign, then one or more decimal digits
Atoi(s) ==
    IF s # <<>> /\ s[1] \in {"+", "-"}
    THEN IF AllDigits(Tail(s))
         THEN [ok |-> TRUE,
               val |-> IF s[1] = "-" THEN 0 - DigitsVal(Tail(s))
                       ELSE DigitsVal(Tail(s))]
         ELSE [ok |-> FALSE, val |-> 0]
    ELSE IF AllDigits(s) THEN [ok |-> TRUE, val |-> DigitsVal(s)]
         ELSE [ok |-> FALSE, val |-> 0]

RECURSIVE ItoaNat(_)
ItoaNat(n) ==
    IF n < 10 THEN <<Digits[n + 1]>>
    ELSE ItoaNat(n \div 10) \o <<Digits[(n % 10) + 1]>>

\* strconv.Itoa, and the %d verb of fmt.Sprintf
Itoa(n) == IF n < 0 THEN <<"-">> \o ItoaNat(0 - n) ELSE ItoaNat(n)

\* positions at which old occurs in s
Occurrences(s, old) ==
    {i \in 1..(Len(s) - Len(old) + 1) : SubSeq(s, i, i + Len(old) - 1) = old}

Min(S) == CHOOSE x \in S : \A y \in S : x <= y

\* strings.Replace(s, old, new, 1) for a non-empty old
ReplaceFirst(s, old, new) ==
    IF Occurrences(s, old) = {} THEN s
    ELSE LET i == Min(Occurrences(s, old))
         IN SubSeq(s, 1, i - 1) \o new \o SubSeq(s, i + Len(old), Len(s))

\* strings containment, used to state properties of names
Contains(s, sub) == Occurrences(s, sub) # {}

EmptyStr == <<>>

\* the prefix main() hands to NewVLANManager: "2a0e:b107:384:ee25::/64"
IPv6Prefix ==
    <<"2", "a", "0", "e", ":", "b", "1", "0", "7", ":", "3", "8", "4", ":",
      "e", "e", "2", "5", ":", ":", "/", "6", "4">>

Slash64 == <<"/", "6", "4">>

ColonColon == <<":", ":">>

VlanLiteral == <<"v", "l", "a", "n">>

P8080 == <<"8", "0", "8", "0">>

P9090 == <<"9", "0", "9", "0">>

PBad == <<"a", "b", "c">>

P08080 == <<"0", "8", "0", "8", "0">>

(***************************************************************************)
(* Values.                                                                 *)
(***************************************************************************)
EmptyMap == <<>>

\* a map without key k
Without(m, k) == [x \in (DOMAIN m) \ {k} |-> m[x]]

\* type Server: a record of the registry
NewServer(id, name, port, directory) ==
    [ID |-> id, Name |-> name, Port |-> port, Directory |-> directory,
     Running |-> FALSE, VLANInterface |-> EmptyStr, IPv6Address |-> EmptyStr]

\* the zero value of the result of CreateVLANInterface
NoVLAN ==
    [Name |-> EmptyStr, VLANID |-> 0, IPv6Address |-> EmptyStr,
     Port |-> EmptyStr, Active |-> FALSE]

\* a request body no handler has decoded yet
NoBody == [name |-> "", port |-> EmptyStr, directory |-> ""]

\* the JSON bodies a client sends to the create and update endpoints
Bodies ==
    { [name |-> "web1", port |-> P9090, directory |-> "/srv/app"],
      [name |-> "web2", port |-> P8080, directory |-> "/srv/www"],
      [name |-> "", port |-> P9090, directory |-> "/srv/app"],
      [name |-> "web1", port |-> PBad, directory |-> "/srv/app"] }

\* the {id} path variable a client sends
ReqIds == {Itoa(n) : n \in 1..MaxID}

\* a goroutine serving one HTTP request
IdleThread ==
    [pc |-> "idle", op |-> "none", id |-> EmptyStr, body |-> NoBody,
     cmd |-> 0, vlan |-> NoVLAN, port |-> EmptyStr, ok |-> FALSE,
     running |-> FALSE, newid |-> EmptyStr, status |-> 0]

\* a child process slot: the exec.Cmd of StartServer and its process
FreeProc == [state |-> "free", id |-> EmptyStr, watched |-> FALSE]

\* no config.json in the config directory
NoFile == [exists |-> FALSE, doc |-> EmptyMap, nextID |-> 0]

\* a request without Authorization header and without token parameter:
\* extractToken returns ""
NoToken == EmptyStr

\* the n-th token generateToken returns: 32 random bytes, never the same
\* twice
TokenOf(n) == <<"t">> \o Itoa(n)

\* a token a client made up
ForgedToken == <<"x">>

\* NewAuthMiddleware("admin123")
Password == "admin123"

\* the passwords a client sends to the login endpoint
Passwords == {Password, "guess"}

\* ExpiresAt is time.Now().Add(24 * time.Hour); the clock counts hours
SessionTTL == 24

\* no call on the VLAN manager yet
NoCall ==
    [op |-> "none", port |-> EmptyStr, exists |-> FALSE, err |-> FALSE,
     vlan |-> NoVLAN]

(***************************************************************************)
(* NewApp, NewVLANManager and startup on a machine without config.json.    *)
(***************************************************************************)
Init ==
    /\ servers = EmptyMap
    /\ nextID = 1
    /\ processes = EmptyMap
    /\ mu = "free"
    /\ savers = 0
    /\ disk = NoFile
    /\ interfaces = EmptyMap
    /\ portToVLAN = EmptyMap
    /\ kernel = {}
    /\ procs = [s \in Slots |-> FreeProc]
    /\ th = [t \in Threads |-> IdleThread]
    /\ boots = 0
    /\ issued = {}
    /\ step = 0
    /\ sessions = EmptyMap
    /\ now = 0
    /\ logins = EmptyMap
    /\ loggedOut = {}
    /\ cleaners = 0
    /\ tok = [t \in Threads |-> NoToken]
    /\ held = [t \in Threads |-> EmptyMap]
    /\ vmcall = NoCall
    /\ path = [g \in Goroutines |-> <<>>]
    /\ lockA = Nobody
    /\ lockV = Nobody

(***************************************************************************)
(* VLANManager.                                                            *)
(***************************************************************************)
\* interfaceName := fmt.Sprintf("vlan%d", vlanID)
InterfaceName(portNum) == VlanLiteral \o Itoa(portNum)

\* the address derivation without the strings.Replace of the prefix length
DeriveIPv6KeepsLength(port) == IPv6Prefix \o ColonColon \o port

\* ipv6Addr := strings.Replace(vm.ipv6Prefix, "/64", "", 1) + "::" + port
DeriveIPv6(port) ==
    ReplaceFirst(IPv6Prefix, Slash64, EmptyStr) \o ColonColon \o port

\* the &VLANInterface{...} literal of CreateVLANInterface
NewVLANInterface(port) ==
    [Name |-> InterfaceName(Atoi(port).val), VLANID |-> Atoi(port).val,
     IPv6Address |-> DeriveIPv6(port), Port |-> port, Active |-> FALSE]

\* the outcomes of the commands of createLinuxVLANInterface: all succeed
\* ("none") or the named step fails; ip link add fails on an existing name
CreateFailures == {"none", "main", "add", "up", "addr"}

PossibleCreateFailures(name) ==
    IF name \in kernel THEN {"main", "add"} ELSE CreateFailures

\* createLinuxVLANInterface that deletes the interface it created when a
\* later command fails
KernelAfterCreateRollsBack(name, fail) ==
    IF fail = "none" THEN kernel \cup {name} ELSE kernel

\* the kernel interfaces after createLinuxVLANInterface
KernelAfterCreate(name, fail) ==
    IF fail \in {"none", "up", "addr"} THEN kernel \cup {name} ELSE kernel

\* vm.interfaces[name], nil when absent
LookupInterface(name) ==
    IF name \in DOMAIN interfaces THEN interfaces[name] ELSE NoVLAN

\* CreateVLANInterface without the lookup of the port index
CreateVLANInterfaceNoLookup(port, fail) ==
    IF ~Atoi(port).ok
    THEN [err |-> TRUE, vlan |-> NoVLAN,
          interfaces |-> interfaces, portToVLAN |-> portToVLAN,
          kernel |-> kernel]
    ELSE LET v == NewVLANInterface(port)
         IN IF fail # "none" \/ v.Name \in kernel
            THEN [err |-> TRUE, vlan |-> NoVLAN,
                  interfaces |-> interfaces, portToVLAN |-> portToVLAN,
                  kernel |-> kernel]
            ELSE [err |-> FALSE, vlan |-> [v EXCEPT !.Active = TRUE],
                  interfaces |->
                      (v.Name :> [v EXCEPT !.Active = TRUE]) @@ interfaces,
                  portToVLAN |-> (port :> v.Name) @@ portToVLAN,
                  kernel |-> kernel \cup {v.Name}]

\* CreateVLANInterface(port) under vm.mu: the error, the identity returned
\* and the manager's maps and the kernel afterwards
CreateVLANInterface(port, fail) ==
    IF port \in DOMAIN portToVLAN
    THEN [err |-> FALSE, vlan |-> LookupInterface(portToVLAN[port]),
          interfaces |-> interfaces, portToVLAN |-> portToVLAN,
          kernel |-> kernel]
    ELSE IF ~Atoi(port).ok
    THEN [err |-> TRUE, vlan |-> NoVLAN,
          interfaces |-> interfaces, portToVLAN |-> portToVLAN,
          kernel |-> kernel]
    ELSE LET v == NewVLANInterface(port)
         IN IF fail # "none"
            THEN [err |-> TRUE, vlan |-> NoVLAN,
                  interfaces |-> interfaces, portToVLAN |-> portToVLAN,
                  kernel |-> KernelAfterCreate(v.Name, fail)]
            ELSE [err |-> FALSE, vlan |-> [v EXCEPT !.Active = TRUE],
                  interfaces |->
                      (v.Name :> [v EXCEPT !.Active = TRUE]) @@ interfaces,
                  portToVLAN |-> (port :> v.Name) @@ portToVLAN,
                  kernel |-> KernelAfterCreate(v.Name, fail)]

\* ip link delete fails on a name the kernel does not have
PossibleDeleteOutcomes(name) ==
    IF name \in kernel THEN {TRUE, FALSE} ELSE {FALSE}

\* RemoveVLANInterface without delete(vm.interfaces, vlanName)
RemoveVLANInterfaceKeepsIdentity(port, deleted) ==
    IF port \notin DOMAIN portToVLAN
    THEN [err |-> FALSE, interfaces |-> interfaces,
          portToVLAN |-> portToVLAN, kernel |-> kernel]
    ELSE IF ~deleted
    THEN [err |-> TRUE, interfaces |-> interfaces,
          portToVLAN |-> portToVLAN, kernel |-> kernel]
    ELSE [err |-> FALSE,
          interfaces |-> interfaces,
          portToVLAN |-> Without(portToVLAN, port),
          kernel |-> kernel \ {LookupInterface(portToVLAN[port]).Name}]

\* RemoveVLANInterface without delete(vm.portToVLAN, port)
RemoveVLANInterfaceKeepsIndex(port, deleted) ==
    IF port \notin DOMAIN portToVLAN
    THEN [err |-> FALSE, interfaces |-> interfaces,
          portToVLAN |-> portToVLAN, kernel |-> kernel]
    ELSE IF ~deleted
    THEN [err |-> TRUE, interfaces |-> interfaces,
          portToVLAN |-> portToVLAN, kernel |-> kernel]
    ELSE [err |-> FALSE,
          interfaces |-> Without(interfaces, portToVLAN[port]),
          portToVLAN |-> portToVLAN,
          kernel |-> kernel \ {LookupInterface(portToVLAN[port]).Name}]

\* RemoveVLANInterface that drops its entries before it runs ip link delete
RemoveVLANInterfaceDropsFirst(port, deleted) ==
    IF port \notin DOMAIN portToVLAN
    THEN [err |-> FALSE, interfaces |-> interfaces,
          portToVLAN |-> portToVLAN, kernel |-> kernel]
    ELSE IF ~deleted
    THEN [err |-> TRUE,
          interfaces |-> Without(interfaces, portToVLAN[port]),
          portToVLAN |-> Without(portToVLAN, port), kernel |-> kernel]
    ELSE [err |-> FALSE,
          interfaces |-> Without(interfaces, portToVLAN[port]),
          portToVLAN |-> Without(portToVLAN, port),
          kernel |-> kernel \ {LookupInterface(portToVLAN[port]).Name}]

\* RemoveVLANInterface(port) under vm.mu
RemoveVLANInterface(port, deleted) ==
    IF port \notin DOMAIN portToVLAN
    THEN [err |-> FALSE, interfaces |-> interfaces,
          portToVLAN |-> portToVLAN, kernel |-> kernel]
    ELSE IF ~deleted
    THEN [err |-> TRUE, interfaces |-> interfaces,
          portToVLAN |-> portToVLAN, kernel |-> kernel]
    ELSE [err |-> FALSE,
          interfaces |-> Without(interfaces, portToVLAN[port]),
          portToVLAN |-> Without(portToVLAN, port),
          kernel |-> kernel \ {LookupInterface(portToVLAN[port]).Name}]

\* GetVLANForPort(port), NoVLAN for nil
GetVLANForPort(port) ==
    IF port \in DOMAIN portToVLAN
    THEN LookupInterface(portToVLAN[port]) ELSE NoVLAN

(***************************************************************************)
(* The configuration file: json.MarshalIndent and json.Unmarshal of        *)
(* AppConfig.  A document is the set of keys written with their values;    *)
(* the omitempty fields are written only when they are not empty.          *)
(***************************************************************************)
ServerKeys(srv) ==
    {"id", "name", "port", "directory", "running"}
        \cup (IF srv.VLANInterface # EmptyStr THEN {"vlan_interface"} ELSE {})
        \cup (IF srv.IPv6Address # EmptyStr THEN {"ipv6_address"} ELSE {})

EncodeServer(srv) ==
    [k \in ServerKeys(srv) |->
        CASE k = "id" -> srv.ID
          [] k = "name" -> srv.Name
          [] k = "port" -> srv.Port
          [] k = "directory" -> srv.Directory
          [] k = "running" -> srv.Running
          [] k = "vlan_interface" -> srv.VLANInterface
          [] k = "ipv6_address" -> srv.IPv6Address]

DecodeServer(doc) ==
    [ID |-> doc["id"], Name |-> doc["name"], Port |-> doc["port"],
     Directory |-> doc["directory"], Running |-> doc["running"],
     VLANInterface |->
        IF "vlan_interface" \in DOMAIN doc
        THEN doc["vlan_interface"] ELSE EmptyStr,
     IPv6Address |->
        IF "ipv6_address" \in DOMAIN doc
        THEN doc["ipv6_address"] ELSE EmptyStr]

\* the file saveConfig writes
EncodeConfig ==
    [exists |-> TRUE,
     doc |-> [id \in DOMAIN servers |-> EncodeServer(servers[id])],
     nextID |-> nextID]

\* loadConfig without the loop that marks the servers as not running
LoadConfigKeepsRunning(d) ==
    IF ~d.exists
    THEN [servers |-> EmptyMap, nextID |-> 1]
    ELSE [servers |-> [id \in DOMAIN d.doc |-> DecodeServer(d.doc[id])],
          nextID |-> d.nextID]

\* loadConfig: the registry and nextID after startup from file d
LoadConfig(d) ==
    IF ~d.exists
    THEN [servers |-> EmptyMap, nextID |-> 1]
    ELSE [servers |->
             [id \in DOMAIN d.doc |->
                 [DecodeServer(d.doc[id]) EXCEPT !.Running = FALSE]],
          nextID |-> d.nextID]

(***************************************************************************)
(* Helpers of the actions.                                                 *)
(***************************************************************************)
\* the goroutine of request t moves to state rec
Goto(t, rec) == th' = [th EXCEPT ![t] = rec]

\* request t is answered: the result of the core call and the HTTP status
Answer(t, ok, status) ==
    Goto(t, [th[t] EXCEPT !.pc = "ret", !.ok = ok, !.status = status,
                          !.cmd = 0, !.body = NoBody, !.port = EmptyStr])

\* a write of the flag onto every record of the registry
WriteRunningAll(id, val) ==
    [k \in DOMAIN servers |-> [servers[k] EXCEPT !.Running = val]]

\* a write through a *Server pointer: it reaches the registry when the
\* record is still in it
WriteRunning(id, val) ==
    IF id \in DOMAIN servers
    THEN [servers EXCEPT ![id].Running = val] ELSE servers

\* go a.saveConfig()
SpawnSave == savers' = IF savers < MaxSaves THEN savers + 1 ELSE savers

\* the validation of handleCreateServerWithVLAN and handleUpdateServer
ValidBody(body) ==
    /\ body.name # ""
    /\ body.port # EmptyStr
    /\ body.directory # ""
    /\ Atoi(body.port).ok

\* the precondition test of StartServer without the test of the flag
StartRejectedOnlyMissing(id) == id \notin DOMAIN servers

\* the precondition test of StartServer
StartRejected(id) == id \notin DOMAIN servers \/ servers[id].Running

\* the precondition test of StopServer
StopRejected(id) == id \notin DOMAIN servers \/ ~servers[id].Running

\* the lowest free child process slot
FreeSlots == {s \in Slots : procs[s].state = "free"}

(***************************************************************************)
(* POST /servers: handleCreateServerWithVLAN.                               *)
(***************************************************************************)
\* CreateServer that increments nextID before it formats the id
CreateServerIdAfterIncrement(name, port, directory) ==
    [id |-> Itoa(nextID + 1),
     servers |->
        (Itoa(nextID + 1) :> NewServer(Itoa(nextID + 1), name, port, directory))
            @@ servers,
     nextID |-> nextID + 1]

\* CreateServer under a.mu: the id returned, the registry and nextID after
CreateServer(name, port, directory) ==
    [id |-> Itoa(nextID),
     servers |->
        (Itoa(nextID) :> NewServer(Itoa(nextID), name, port, directory))
            @@ servers,
     nextID |-> nextID + 1]

\* decode, validate, then vlanManager.CreateVLANInterface(port)
HandleCreate(t, body, fail) ==
    /\ th[t].pc = "idle"
    /\ IF ~ValidBody(body)
       THEN /\ Goto(t, [th[t] EXCEPT !.pc = "ret", !.op = "Create",
                                      !.status = 400])
            /\ UNCHANGED <<interfaces, portToVLAN, kernel>>
       ELSE /\ fail \in PossibleCreateFailures(
                            InterfaceName(Atoi(body.port).val))
            /\ LET r == CreateVLANInterface(body.port, fail)
               IN /\ interfaces' = r.interfaces
                  /\ portToVLAN' = r.portToVLAN
                  /\ kernel' = r.kernel
                  /\ IF r.err
                     THEN Goto(t, [th[t] EXCEPT !.pc = "ret", !.op = "Create",
                                       !.status = 500])
                     ELSE Goto(t, [th[t] EXCEPT !.pc = "create_server",
                                       !.op = "Create", !.body = body,
                                       !.vlan = r.vlan])
    /\ UNCHANGED <<servers, nextID, processes, mu, savers, disk, procs,
                   boots, issued, step, apiVars>>

\* id := a.CreateServer(name, port, directory)
CreateServerStep(t) ==
    /\ th[t].pc = "create_server"
    /\ mu = "free"
    /\ LET r == CreateServer(th[t].body.name, th[t].body.port,
                             th[t].body.directory)
       IN /\ servers' = r.servers
          /\ nextID' = r.nextID
          /\ issued' = issued \cup {r.id}
          /\ Goto(t, [th[t] EXCEPT !.pc = "create_writeback", !.newid = r.id])
    /\ SpawnSave
    /\ UNCHANGED <<processes, mu, disk, interfaces, portToVLAN, kernel,
                   procs, boots, step, apiVars>>

\* the id is answered without the write of the VLAN information
CreateWritebackSkipsRecord(t) ==
    /\ th[t].pc = "create_writeback"
    /\ mu = "free"
    /\ Answer(t, TRUE, 200)
    /\ UNCHANGED <<servers, nextID, processes, mu, savers, disk, interfaces,
                   portToVLAN, kernel, procs, boots, issued, step, apiVars>>

\* the VLAN information is written onto the record and the id answered
CreateWriteback(t) ==
    /\ th[t].pc = "create_writeback"
    /\ mu = "free"
    /\ servers' =
          IF th[t].newid \in DOMAIN servers
          THEN [servers EXCEPT
                   ![th[t].newid].VLANInterface = th[t].vlan.Name,
                   ![th[t].newid].IPv6Address = th[t].vlan.IPv6Address]
          ELSE servers
    /\ Answer(t, TRUE, 200)
    /\ UNCHANGED <<nextID, processes, mu, savers, disk, interfaces,
                   portToVLAN, kernel, procs, boots, issued, step, apiVars>>

(***************************************************************************)
(* StartServer, behind POST /servers/{id}/start.                           *)
(***************************************************************************)
\* the first critical section: look the record up, test the precondition
StartCheck(t, id) ==
    /\ th[t].pc = "idle"
    /\ mu = "free"
    /\ IF StartRejected(id)
       THEN Goto(t, [th[t] EXCEPT !.pc = "ret", !.op = "Start", !.id = id,
                                  !.ok = FALSE, !.status = 400])
       ELSE Goto(t, [th[t] EXCEPT !.pc = "start_launch", !.op = "Start",
                                  !.id = id])
    /\ UNCHANGED <<servers, nextID, processes, mu, savers, disk, interfaces,
                   portToVLAN, kernel, procs, boots, issued, step, apiVars>>

\* a launch that sets the running flag although cmd.Start() failed
StartLaunchFlagsFailure(t, launched) ==
    /\ th[t].pc = "start_launch"
    /\ IF ~launched
       THEN /\ Answer(t, FALSE, 400)
            /\ servers' = WriteRunning(th[t].id, TRUE)
            /\ UNCHANGED procs
       ELSE /\ FreeSlots # {}
            /\ procs' = [procs EXCEPT ![Min(FreeSlots)] =
                            [state |-> "alive", id |-> th[t].id,
                             watched |-> FALSE]]
            /\ Goto(t, [th[t] EXCEPT !.pc = "start_set",
                                     !.cmd = Min(FreeSlots)])
            /\ UNCHANGED servers
    /\ UNCHANGED <<nextID, processes, mu, savers, disk, interfaces,
                   portToVLAN, kernel, boots, issued, step, apiVars>>

\* the command is built and cmd.Start() runs, outside the lock
StartLaunch(t, launched) ==
    /\ th[t].pc = "start_launch"
    /\ IF ~launched
       THEN /\ Answer(t, FALSE, 400)
            /\ UNCHANGED procs
       ELSE /\ FreeSlots # {}
            /\ procs' = [procs EXCEPT ![Min(FreeSlots)] =
                            [state |-> "alive", id |-> th[t].id,
                             watched |-> FALSE]]
            /\ Goto(t, [th[t] EXCEPT !.pc = "start_set",
                                     !.cmd = Min(FreeSlots)])
    /\ UNCHANGED <<servers, nextID, processes, mu, savers, disk, interfaces,
                   portToVLAN, kernel, boots, issued, step, apiVars>>

\* the second critical section records the handle and sets the flag, then
\* the watcher goroutine is started
StartSet(t) ==
    /\ th[t].pc = "start_set"
    /\ mu = "free"
    /\ processes' = (th[t].id :> th[t].cmd) @@ processes
    /\ servers' = WriteRunning(th[t].id, TRUE)
    /\ procs' = [procs EXCEPT ![th[t].cmd].watched = TRUE]
    /\ Answer(t, TRUE, 200)
    /\ UNCHANGED <<nextID, mu, savers, disk, interfaces, portToVLAN, kernel,
                   boots, issued, step, apiVars>>

\* the child process ends by itself
ChildExit(s) ==
    /\ procs[s].state = "alive"
    /\ procs' = [procs EXCEPT ![s].state = "exited"]
    /\ UNCHANGED <<servers, nextID, processes, mu, savers, disk, interfaces,
                   portToVLAN, kernel, th, boots, issued, step, apiVars>>

\* a handle whose process the watcher has already waited for
Gone == 0 - 1

\* a watcher that removes the handle and leaves the running flag
WatcherKeepsFlag(s) ==
    /\ procs[s].state = "exited"
    /\ procs[s].watched
    /\ mu = "free"
    /\ processes' = Without(processes, procs[s].id)
    /\ procs' = [procs EXCEPT ![s] = FreeProc]
    /\ th' = [t \in Threads |->
                IF th[t].cmd = s /\ th[t].pc = "stop_kill"
                THEN [th[t] EXCEPT !.cmd = Gone] ELSE th[t]]
    /\ UNCHANGED <<servers, nextID, mu, savers, disk, interfaces, portToVLAN,
                   kernel, boots, issued, step, apiVars>>

\* a watcher that clears the running flag and leaves the handle
WatcherLeavesHandle(s) ==
    /\ procs[s].state = "exited"
    /\ procs[s].watched
    /\ mu = "free"
    /\ servers' = WriteRunning(procs[s].id, FALSE)
    /\ procs' = [procs EXCEPT ![s] = FreeProc]
    /\ th' = [t \in Threads |->
                IF th[t].cmd = s /\ th[t].pc = "stop_kill"
                THEN [th[t] EXCEPT !.cmd = Gone] ELSE th[t]]
    /\ UNCHANGED <<nextID, processes, mu, savers, disk, interfaces,
                   portToVLAN, kernel, boots, issued, step, apiVars>>

\* the watcher goroutine after cmd.Wait() returned
Watcher(s) ==
    /\ procs[s].state = "exited"
    /\ procs[s].watched
    /\ mu = "free"
    /\ processes' = Without(processes, procs[s].id)
    /\ servers' = WriteRunning(procs[s].id, FALSE)
    /\ procs' = [procs EXCEPT ![s] = FreeProc]
    /\ th' = [t \in Threads |->
                IF th[t].cmd = s /\ th[t].pc = "stop_kill"
                THEN [th[t] EXCEPT !.cmd = Gone] ELSE th[t]]
    /\ UNCHANGED <<nextID, mu, savers, disk, interfaces, portToVLAN, kernel,
                   boots, issued, step, apiVars>>

(***************************************************************************)
(* StopServer, behind POST /servers/{id}/stop and called by UpdateServer   *)
(* and DeleteServer.                                                       *)
(***************************************************************************)
\* StopServer returned result to the function that called it
AfterStop(t, rec, result) ==
    Goto(t,
        CASE rec.op = "Stop" ->
                [rec EXCEPT !.pc = "ret", !.ok = result, !.cmd = 0,
                            !.status = IF result THEN 200 ELSE 400]
          [] rec.op = "Update" -> [rec EXCEPT !.pc = "update_write", !.cmd = 0]
          [] rec.op = "Delete" -> [rec EXCEPT !.pc = "delete_remove", !.cmd = 0])

\* the first critical section of StopServer, run by the goroutine in rec
StopServerCheck(t, rec) ==
    /\ mu = "free"
    /\ IF StopRejected(rec.id)
       THEN /\ AfterStop(t, rec, FALSE)
            /\ UNCHANGED servers
       ELSE IF rec.id \notin DOMAIN processes
       THEN /\ servers' = WriteRunning(rec.id, FALSE)
            /\ AfterStop(t, rec, TRUE)
       ELSE /\ Goto(t, [rec EXCEPT !.pc = "stop_kill",
                                   !.cmd = processes[rec.id]])
            /\ UNCHANGED servers
    /\ UNCHANGED <<nextID, processes, mu, savers, disk, interfaces,
                   portToVLAN, kernel, procs, boots, issued, step, apiVars>>

\* POST /servers/{id}/stop
HandleStop(t, id) ==
    /\ th[t].pc = "idle"
    /\ StopServerCheck(t, [th[t] EXCEPT !.op = "Stop", !.id = id])

\* a.StopServer(id) inside UpdateServer and DeleteServer
NestedStop(t) ==
    /\ th[t].pc = "stop_check"
    /\ StopServerCheck(t, th[t])

\* cmd.Process.Kill() fails on a process that was already waited for
KillOutcomes(cmd) == IF cmd = Gone THEN {FALSE} ELSE {TRUE, FALSE}

\* cmd.Process.Kill(), outside the lock
StopKill(t, killed) ==
    /\ th[t].pc = "stop_kill"
    /\ killed \in KillOutcomes(th[t].cmd)
    /\ IF killed
       THEN /\ procs' = [procs EXCEPT ![th[t].cmd].state = "exited"]
            /\ Goto(t, [th[t] EXCEPT !.pc = "stop_clear", !.cmd = 0])
       ELSE /\ AfterStop(t, th[t], FALSE)
            /\ UNCHANGED procs
    /\ UNCHANGED <<servers, nextID, processes, mu, savers, disk, interfaces,
                   portToVLAN, kernel, boots, issued, step, apiVars>>

\* the last critical section of StopServer
StopClear(t) ==
    /\ th[t].pc = "stop_clear"
    /\ mu = "free"
    /\ processes' = Without(processes, th[t].id)
    /\ servers' = WriteRunning(th[t].id, FALSE)
    /\ AfterStop(t, th[t], TRUE)
    /\ UNCHANGED <<nextID, mu, savers, disk, interfaces, portToVLAN, kernel,
                   procs, boots, issued, step, apiVars>>

(***************************************************************************)
(* PUT /servers/{id}: handleUpdateServer and UpdateServer.                 *)
(***************************************************************************)
\* server.Name = name; server.Port = port; server.Directory = directory
WriteFields(id, body) ==
    IF id \in DOMAIN servers
    THEN [servers EXCEPT ![id].Name = body.name, ![id].Port = body.port,
                         ![id].Directory = body.directory]
    ELSE servers

\* validation and the first critical section of UpdateServer
HandleUpdate(t, id, body) ==
    /\ th[t].pc = "idle"
    /\ LET rec == [th[t] EXCEPT !.op = "Update", !.id = id, !.body = body]
       IN IF ~ValidBody(body)
          THEN /\ Goto(t, [rec EXCEPT !.pc = "ret", !.status = 400,
                                      !.body = NoBody])
               /\ UNCHANGED <<servers, savers>>
          ELSE /\ mu = "free"
               /\ IF id \notin DOMAIN servers
                  THEN /\ Goto(t, [rec EXCEPT !.pc = "ret", !.ok = FALSE,
                                              !.status = 404,
                                              !.body = NoBody])
                       /\ UNCHANGED <<servers, savers>>
                  ELSE IF servers[id].Running
                  THEN /\ Goto(t, [rec EXCEPT !.pc = "stop_check"])
                       /\ UNCHANGED <<servers, savers>>
                  ELSE /\ servers' = WriteFields(id, body)
                       /\ SpawnSave
                       /\ Goto(t, [rec EXCEPT !.pc = "ret", !.ok = TRUE,
                                              !.status = 200,
                                              !.body = NoBody])
    /\ UNCHANGED <<nextID, processes, mu, disk, interfaces, portToVLAN,
                   kernel, procs, boots, issued, step, apiVars>>

\* UpdateServer after its call of StopServer: lock again and overwrite
UpdateWrite(t) ==
    /\ th[t].pc = "update_write"
    /\ mu = "free"
    /\ servers' = WriteFields(th[t].id, th[t].body)
    /\ SpawnSave
    /\ Answer(t, TRUE, 200)
    /\ UNCHANGED <<nextID, processes, mu, disk, interfaces, portToVLAN,
                   kernel, procs, boots, issued, step, apiVars>>

(***************************************************************************)
(* DELETE /servers/{id}: handleDeleteServerWithVLAN and DeleteServer.      *)
(***************************************************************************)
\* the handler reads the port of the record before the deletion
HandleDelete(t, id) ==
    /\ th[t].pc = "idle"
    /\ mu = "free"
    /\ Goto(t, [th[t] EXCEPT !.pc = "delete_check", !.op = "Delete",
                   !.id = id,
                   !.port = IF id \in DOMAIN servers
                            THEN servers[id].Port ELSE EmptyStr])
    /\ UNCHANGED <<servers, nextID, processes, mu, savers, disk, interfaces,
                   portToVLAN, kernel, procs, boots, issued, step, apiVars>>

\* the first critical section of DeleteServer
DeleteCheck(t) ==
    /\ th[t].pc = "delete_check"
    /\ mu = "free"
    /\ IF th[t].id \notin DOMAIN servers
       THEN /\ Answer(t, FALSE, 404)
            /\ UNCHANGED <<servers, savers>>
       ELSE IF servers[th[t].id].Running
       THEN /\ Goto(t, [th[t] EXCEPT !.pc = "stop_check"])
            /\ UNCHANGED <<servers, savers>>
       ELSE /\ servers' = Without(servers, th[t].id)
            /\ SpawnSave
            /\ Goto(t, [th[t] EXCEPT !.pc = "delete_vlan", !.ok = TRUE])
    /\ UNCHANGED <<nextID, processes, mu, disk, interfaces, portToVLAN,
                   kernel, procs, boots, issued, step, apiVars>>

\* DeleteServer after its call of StopServer: lock again and delete
DeleteRemove(t) ==
    /\ th[t].pc = "delete_remove"
    /\ mu = "free"
    /\ servers' = Without(servers, th[t].id)
    /\ SpawnSave
    /\ Goto(t, [th[t] EXCEPT !.pc = "delete_vlan", !.ok = TRUE])
    /\ UNCHANGED <<nextID, processes, mu, disk, interfaces, portToVLAN,
                   kernel, procs, boots, issued, step, apiVars>>

\* the release of the identity with 200 for every outcome
DeleteVLANHidesFailure(t, deleted) ==
    /\ th[t].pc = "delete_vlan"
    /\ IF th[t].port = EmptyStr
       THEN /\ deleted
            /\ Answer(t, TRUE, 200)
            /\ UNCHANGED <<interfaces, portToVLAN, kernel>>
       ELSE /\ IF th[t].port \in DOMAIN portToVLAN
               THEN deleted \in PossibleDeleteOutcomes(
                                    LookupInterface(portToVLAN[th[t].port]).Name)
               ELSE deleted
            /\ LET r == RemoveVLANInterface(th[t].port, deleted)
               IN /\ interfaces' = r.interfaces
                  /\ portToVLAN' = r.portToVLAN
                  /\ kernel' = r.kernel
                  /\ Answer(t, TRUE, 200)
    /\ UNCHANGED <<servers, nextID, processes, mu, savers, disk, procs,
                   boots, issued, step, apiVars>>

\* DeleteServer returned true: vlanManager.RemoveVLANInterface(port)
DeleteVLAN(t, deleted) ==
    /\ th[t].pc = "delete_vlan"
    /\ IF th[t].port = EmptyStr
       THEN /\ deleted
            /\ Answer(t, TRUE, 200)
            /\ UNCHANGED <<interfaces, portToVLAN, kernel>>
       ELSE /\ IF th[t].port \in DOMAIN portToVLAN
               THEN deleted \in PossibleDeleteOutcomes(
                                    LookupInterface(portToVLAN[th[t].port]).Name)
               ELSE deleted
            /\ LET r == RemoveVLANInterface(th[t].port, deleted)
               IN /\ interfaces' = r.interfaces
                  /\ portToVLAN' = r.portToVLAN
                  /\ kernel' = r.kernel
                  /\ Answer(t, TRUE, IF r.err THEN 206 ELSE 200)
    /\ UNCHANGED <<servers, nextID, processes, mu, savers, disk, procs,
                   boots, issued, step, apiVars>>

(***************************************************************************)
(* GET /servers/{id}/status: handleServerStatus and GetServerStatus.       *)
(***************************************************************************)
\* GetServerStatus without the lookup of the id
GetServerStatusAlwaysExists(id) == [exists |-> TRUE, running |-> FALSE]

\* GetServerStatus(id): (exists, running)
GetServerStatus(id) ==
    IF id \notin DOMAIN servers
    THEN [exists |-> FALSE, running |-> FALSE]
    ELSE [exists |-> TRUE, running |-> servers[id].Running]

HandleStatus(t, id) ==
    /\ th[t].pc = "idle"
    /\ mu = "free"
    /\ Goto(t, [th[t] EXCEPT !.pc = "ret", !.op = "Status", !.id = id,
                   !.ok = GetServerStatus(id).exists,
                   !.running = GetServerStatus(id).running,
                   !.status = IF GetServerStatus(id).exists
                              THEN 200 ELSE 404])
    /\ UNCHANGED <<servers, nextID, processes, mu, savers, disk, interfaces,
                   portToVLAN, kernel, procs, boots, issued, step, apiVars>>

\* the response is written and the goroutine of the request ends
Return(t) ==
    /\ th[t].pc = "ret"
    /\ Goto(t, IdleThread)
    /\ UNCHANGED <<servers, nextID, processes, mu, savers, disk, interfaces,
                   portToVLAN, kernel, procs, boots, issued, step, apiVars>>

(***************************************************************************)
(* saveConfig, run as a goroutine by Create, Update and Delete.            *)
(***************************************************************************)
\* a.mu.Lock() and json.MarshalIndent
SaveBegin ==
    /\ savers > 0
    /\ mu = "free"
    /\ mu' = "save"
    /\ UNCHANGED <<servers, nextID, processes, savers, disk, interfaces,
                   portToVLAN, kernel, procs, th, boots, issued, step, apiVars>>

\* ioutil.WriteFile and the deferred a.mu.Unlock()
SaveWrite(written) ==
    /\ mu = "save"
    /\ disk' = IF written THEN EncodeConfig ELSE disk
    /\ mu' = "free"
    /\ savers' = savers - 1
    /\ UNCHANGED <<servers, nextID, processes, interfaces, portToVLAN,
                   kernel, procs, th, boots, issued, step, apiVars>>

(***************************************************************************)
(* The machine goes down at any moment and is started again: every        *)
(* goroutine, every child process and every kernel interface is gone, and  *)
(* main runs NewApp, startup and NewVLANManager.  The file remains.        *)
(***************************************************************************)
Restart ==
    /\ boots' = boots + 1
    /\ servers' = LoadConfig(disk).servers
    /\ nextID' = LoadConfig(disk).nextID
    /\ processes' = EmptyMap
    /\ mu' = "free"
    /\ savers' = 0
    /\ interfaces' = EmptyMap
    /\ portToVLAN' = EmptyMap
    /\ procs' = [s \in Slots |-> FreeProc]
    /\ th' = [t \in Threads |-> IdleThread]
    /\ kernel' = {}
    /\ sessions' = EmptyMap
    /\ cleaners' = 0
    /\ tok' = [t \in Threads |-> NoToken]
    /\ held' = [t \in Threads |-> EmptyMap]
    /\ UNCHANGED <<disk, issued, step, now, logins, loggedOut, vmcall,
                   path, lockA, lockV>>

\* the request bodies that pass the validation of the handlers
ValidBodies == {b \in Bodies : ValidBody(b)}

\* the model takes no more create requests than it has ids for
IdsLeft(limit) ==
    nextID + Cardinality({u \in Threads : th[u].pc = "create_server"}) <= limit

(***************************************************************************)
(* Spec: concurrent requests against the supervisor.  NumThreads requests  *)
(* at a time, every interleaving of their critical sections, of the        *)
(* children's exits and of the watchers.  The launch and the kill of a     *)
(* child may fail.  The ip commands succeed, and the saveConfig goroutines *)
(* are not scheduled: they change neither the registry nor the process     *)
(* table.                                                                  *)
(***************************************************************************)
Next ==
    \/ \E t \in Threads, body \in ValidBodies :
          IdsLeft(MaxRaceID) /\ HandleCreate(t, body, "none")
    \/ \E t \in Threads : CreateServerStep(t)
    \/ \E t \in Threads : CreateWriteback(t)
    \/ \E t \in Threads, id \in ReqIds : StartCheck(t, id)
    \/ \E t \in Threads, launched \in BOOLEAN : StartLaunch(t, launched)
    \/ \E t \in Threads : StartSet(t)
    \/ \E s \in Slots : ChildExit(s)
    \/ \E s \in Slots : Watcher(s)
    \/ \E t \in Threads, id \in ReqIds : HandleStop(t, id)
    \/ \E t \in Threads : NestedStop(t)
    \/ \E t \in Threads, killed \in BOOLEAN : StopKill(t, killed)
    \/ \E t \in Threads : StopClear(t)
    \/ \E t \in Threads, id \in ReqIds, body \in ValidBodies :
          HandleUpdate(t, id, body)
    \/ \E t \in Threads : UpdateWrite(t)
    \/ \E t \in Threads, id \in ReqIds : HandleDelete(t, id)
    \/ \E t \in Threads : DeleteCheck(t)
    \/ \E t \in Threads : DeleteRemove(t)
    \/ \E t \in Threads : DeleteVLAN(t, TRUE)
    \/ \E t \in Threads : Return(t)

Spec == Init /\ [][Next]_vars

(***************************************************************************)
(* SpecSys: persistence and restart, under one request at a time.  The     *)
(* watchers, the children's exits and the saveConfig goroutines run at any *)
(* moment, the launch, the kill and the write of the file may fail, and    *)
(* the machine is restarted up to MaxBoots times.  The ip commands succeed.*)
(***************************************************************************)
Client == Min(Threads)

NextSys ==
    \/ \E body \in ValidBodies :
          IdsLeft(MaxSysID) /\ HandleCreate(Client, body, "none")
    \/ CreateServerStep(Client)
    \/ CreateWriteback(Client)
    \/ \E id \in ReqIds : StartCheck(Client, id)
    \/ \E launched \in BOOLEAN : StartLaunch(Client, launched)
    \/ StartSet(Client)
    \/ \E s \in Slots : ChildExit(s)
    \/ \E s \in Slots : Watcher(s)
    \/ \E id \in ReqIds : HandleStop(Client, id)
    \/ NestedStop(Client)
    \/ \E killed \in BOOLEAN : StopKill(Client, killed)
    \/ StopClear(Client)
    \/ \E id \in ReqIds, body \in ValidBodies : HandleUpdate(Client, id, body)
    \/ UpdateWrite(Client)
    \/ \E id \in ReqIds : HandleDelete(Client, id)
    \/ DeleteCheck(Client)
    \/ DeleteRemove(Client)
    \/ DeleteVLAN(Client, TRUE)
    \/ Return(Client)
    \/ SaveBegin
    \/ \E written \in BOOLEAN : SaveWrite(written)
    \/ boots < MaxBoots /\ Restart

SpecSys == Init /\ [][NextSys]_vars

(***************************************************************************)
(* SpecNet: the handlers and the VLAN manager, under one request at a      *)
(* time.  Every request body is sent, well-formed or not, every ip command *)
(* may fail, and the watchers and the children's exits run at any moment.  *)
(* The saveConfig goroutines are not scheduled.                            *)
(***************************************************************************)
NextNet ==
    \/ \E body \in Bodies, fail \in CreateFailures :
          IdsLeft(MaxID) /\ HandleCreate(Client, body, fail)
    \/ CreateServerStep(Client)
    \/ CreateWriteback(Client)
    \/ \E id \in ReqIds : StartCheck(Client, id)
    \/ \E launched \in BOOLEAN : StartLaunch(Client, launched)
    \/ StartSet(Client)
    \/ \E s \in Slots : ChildExit(s)
    \/ \E s \in Slots : Watcher(s)
    \/ \E id \in ReqIds : HandleStop(Client, id)
    \/ NestedStop(Client)
    \/ \E killed \in BOOLEAN : StopKill(Client, killed)
    \/ StopClear(Client)
    \/ \E id \in ReqIds, body \in Bodies : HandleUpdate(Client, id, body)
    \/ UpdateWrite(Client)
    \/ \E id \in ReqIds : HandleDelete(Client, id)
    \/ DeleteCheck(Client)
    \/ DeleteRemove(Client)
    \/ \E deleted \in BOOLEAN : DeleteVLAN(Client, deleted)
    \/ \E id \in ReqIds : HandleStatus(Client, id)
    \/ Return(Client)

SpecNet == Init /\ [][NextNet]_vars

TypeOK ==
    /\ nextID \in 1..(MaxID + 1)
    /\ mu \in {"free", "save"}
    /\ savers \in 0..MaxSaves
    /\ boots \in 0..MaxBoots
    /\ \A t \in Threads : th[t].cmd \in Slots \cup {0, Gone}

(***************************************************************************)
(* SpecSeq: one client on a fresh service sends create, status, start,     *)
(* status, stop, status, delete, status, each request after the answer to  *)
(* the one before, for the id the create request returned.  Every OS call  *)
(* succeeds and the child does not end by itself; the watcher and the      *)
(* saveConfig goroutines run at any moment.  step counts the answers the   *)
(* client has received.                                                    *)
(***************************************************************************)
Script ==
    <<"Create", "Status", "Start", "Status", "Stop", "Status", "Delete",
      "Status">>

\* the next request of the script is op
NextCall(op) == step < Len(Script) /\ Script[step + 1] = op

\* the client receives the answer and goes on to the next line
SeqReturn ==
    /\ th[Client].pc = "ret"
    /\ Goto(Client, IdleThread)
    /\ step' = step + 1
    /\ UNCHANGED <<servers, nextID, processes, mu, savers, disk, interfaces,
                   portToVLAN, kernel, procs, boots, issued, apiVars>>

NextSeq ==
    \/ \E body \in ValidBodies :
          NextCall("Create") /\ HandleCreate(Client, body, "none")
    \/ CreateServerStep(Client)
    \/ CreateWriteback(Client)
    \/ \E id \in issued : NextCall("Start") /\ StartCheck(Client, id)
    \/ StartLaunch(Client, TRUE)
    \/ StartSet(Client)
    \/ \E s \in Slots : Watcher(s)
    \/ \E id \in issued : NextCall("Stop") /\ HandleStop(Client, id)
    \/ StopKill(Client, TRUE)
    \/ StopClear(Client)
    \/ \E id \in issued : NextCall("Delete") /\ HandleDelete(Client, id)
    \/ DeleteCheck(Client)
    \/ DeleteVLAN(Client, TRUE)
    \/ \E id \in issued : NextCall("Status") /\ HandleStatus(Client, id)
    \/ SeqReturn
    \/ SaveBegin
    \/ SaveWrite(TRUE)

SpecSeq == Init /\ [][NextSeq]_vars

(***************************************************************************)
(* Properties.                                                             *)
(***************************************************************************)
\* the children launched for server id that are alive
AliveChildren(id) ==
    {s \in Slots : procs[s].state = "alive" /\ procs[s].id = id}

\* request t is a call of op that is returning ok
Returning(t, op, ok) ==
    th[t].pc = "ret" /\ th[t].op = op /\ th[t].ok = ok /\ th[t].status # 0

\* C1: of the StartServer calls for one server that are in progress
\* together, while the children they launch stay alive, one returns true
\* and one child is launched
C1_ExactlyOneStartWins ==
    \A t1, t2 \in Threads :
        (/\ t1 # t2
         /\ Returning(t1, "Start", TRUE)
         /\ Returning(t2, "Start", TRUE)
         /\ th[t1].id = th[t2].id)
        => Cardinality(AliveChildren(th[t1].id)) < 2

\* C2: every record of the registry whose running flag is true has an entry
\* for its id in the process table
C2_RunningHasProcess ==
    \A id \in DOMAIN servers : servers[id].Running => id \in DOMAIN processes

C2_Witness ==
    \E id \in DOMAIN servers :
        /\ servers[id].Running
        /\ id \in DOMAIN processes
        /\ procs[processes[id]].state = "alive"
        /\ procs[processes[id]].watched

\* C3: every running record that carries an interface name or an IPv6
\* address has an active identity registered in the VLAN manager for the
\* port of the record
C3_RunningHasIdentity ==
    \A id \in DOMAIN servers :
        (/\ servers[id].Running
         /\ (servers[id].VLANInterface # EmptyStr
                \/ servers[id].IPv6Address # EmptyStr))
        => /\ servers[id].Port \in DOMAIN portToVLAN
           /\ GetVLANForPort(servers[id].Port).Active

\* "2a0e:b107:384:ee25::8080"
Addr8080 ==
    <<"2", "a", "0", "e", ":", "b", "1", "0", "7", ":", "3", "8", "4", ":",
      "e", "e", "2", "5", ":", ":", "8", "0", "8", "0">>

\* C4: the identity registered for port "8080" under the configured prefix
\* has the address 2a0e:b107:384:ee25::8080 and a name that contains 8080
C4_Address8080 ==
    P8080 \in DOMAIN portToVLAN
        => /\ GetVLANForPort(P8080).IPv6Address = Addr8080
           /\ Contains(GetVLANForPort(P8080).Name, P8080)

\* C5: at the step at which UpdateServer, having found the server running,
\* overwrites the fields and returns true, the running flag of the record
\* is false and the process table has no entry for the id
C5_UpdateWritesStopped ==
    [][\A t \in Threads :
          (th[t].pc = "update_write" /\ th'[t].pc = "ret" /\ th'[t].ok)
          => /\ th[t].id \notin DOMAIN processes
             /\ th[t].id \in DOMAIN servers => ~servers[th[t].id].Running]_vars

\* C6: when DeleteServer returns true, GetServerStatus reports
\* exists=false, the process table has no entry for the id and no child
\* launched for the id is alive
C6_DeleteStopsFirst ==
    [][\A t \in Threads :
          (/\ th[t].pc \in {"delete_check", "delete_remove"}
           /\ th'[t].pc = "delete_vlan")
          => /\ th'[t].ok
             /\ th[t].id \notin DOMAIN servers'
             /\ th[t].id \notin DOMAIN processes'
             /\ \A s \in Slots :
                   ~(procs'[s].state = "alive" /\ procs'[s].id = th[t].id)]_vars

\* request t takes the step that begins a call of op
Begins(t, op) == th[t].pc = "idle" /\ th'[t].pc # "idle" /\ th'[t].op = op

\* C8: StartServer on a running server and StopServer on a stopped server
\* return false and leave the registry, the process table and the child
\* processes as they are
C8_RejectedIsNoOp ==
    [][\A t \in Threads :
          /\ (/\ Begins(t, "Start")
              /\ th'[t].id \in DOMAIN servers
              /\ servers[th'[t].id].Running)
             => /\ th'[t].pc = "ret" /\ ~th'[t].ok
                /\ UNCHANGED <<servers, nextID, processes, procs>>
          /\ (/\ Begins(t, "Stop")
              /\ th'[t].id \in DOMAIN servers
              /\ ~servers[th'[t].id].Running)
             => /\ th'[t].pc = "ret" /\ ~th'[t].ok
                /\ UNCHANGED <<servers, nextID, processes, procs>>]_vars

C8_Witness ==
    \E t1, t2 \in Threads :
        /\ Returning(t1, "Start", FALSE)
        /\ th[t1].id \in DOMAIN servers
        /\ servers[th[t1].id].Running
        /\ Returning(t2, "Stop", FALSE)
        /\ th[t2].id \in DOMAIN servers

\* C9: nextID is greater than the number of every id CreateServer has
\* returned, also after a restart
C9_NextIDAboveIssued ==
    \A id \in issued : Atoi(id).val < nextID

\* C10: loadConfig leaves every record with running=false and an empty
\* process table; the other fields of the records, the ids and nextID are
\* the ones of the file
C10_LoadStopsAll ==
    [][boots' # boots
          => /\ processes' = EmptyMap
             /\ \A id \in DOMAIN servers' : ~servers'[id].Running
             /\ disk.exists
                => /\ nextID' = disk.nextID
                   /\ DOMAIN servers' = DOMAIN disk.doc
                   /\ \A id \in DOMAIN disk.doc :
                         [EncodeServer(servers'[id]) EXCEPT
                             !["running"] = disk.doc[id]["running"]]
                            = disk.doc[id]]_vars

C10_Witness ==
    /\ boots > 0
    /\ processes = EmptyMap
    /\ \A t \in Threads : th[t].pc = "idle"
    /\ \E id \in DOMAIN servers :
          /\ disk.exists
          /\ id \in DOMAIN disk.doc
          /\ disk.doc[id]["running"]
          /\ "ipv6_address" \in DOMAIN disk.doc[id]
          /\ ~servers[id].Running
          /\ servers[id].IPv6Address = disk.doc[id]["ipv6_address"]

\* C7: in the sequential run Create returns "1" and Status is (true,
\* false); Start returns true and Status is (true, true); Stop returns true
\* and Status is (true, false); Delete returns true and Status reports
\* exists=false
C7_Lifecycle ==
    th[Client].pc = "ret" =>
        /\ step = 0 => th[Client].newid = <<"1">> /\ th[Client].status = 200
        /\ step = 1 => th[Client].ok /\ ~th[Client].running
        /\ step = 2 => th[Client].ok
        /\ step = 3 => th[Client].ok /\ th[Client].running
        /\ step = 4 => th[Client].ok
        /\ step = 5 => th[Client].ok /\ ~th[Client].running
        /\ step = 6 => th[Client].ok
        /\ step = 7 => ~th[Client].ok /\ th[Client].status = 404

C7_Witness ==
    /\ step = 7
    /\ Returning(Client, "Status", FALSE)
    /\ issued = {<<"1">>}

(***************************************************************************)
(* SpecVlan: the calls the handlers make on the VLAN manager, in any order *)
(* and for any port string.  A call holds vm.mu from its first to its last *)
(* statement; vmcall is the call that returned last.                       *)
(***************************************************************************)
\* the port strings of the calls
VlanPorts == {P8080, P08080, P9090, PBad}

\* what a call on the VLAN manager leaves alone
vmFrame ==
    <<servers, nextID, processes, mu, savers, disk, procs, th, boots,
      issued, step, sessions, now, logins, loggedOut, cleaners, tok, held,
      path, lockA, lockV>>

\* vlanManager.CreateVLANInterface(port)
CallCreateVLANInterface(port, fail) ==
    /\ fail \in (IF port \in DOMAIN portToVLAN \/ ~Atoi(port).ok
                 THEN {"none"}
                 ELSE PossibleCreateFailures(InterfaceName(Atoi(port).val)))
    /\ LET r == CreateVLANInterface(port, fail)
       IN /\ interfaces' = r.interfaces
          /\ portToVLAN' = r.portToVLAN
          /\ kernel' = r.kernel
          /\ vmcall' = [op |-> "Create", port |-> port,
                        exists |-> port \in DOMAIN portToVLAN,
                        err |-> r.err, vlan |-> r.vlan]
    /\ UNCHANGED vmFrame

\* vlanManager.RemoveVLANInterface(port)
CallRemoveVLANInterface(port, deleted) ==
    /\ deleted \in (IF port \in DOMAIN portToVLAN
                    THEN PossibleDeleteOutcomes(
                             LookupInterface(portToVLAN[port]).Name)
                    ELSE {TRUE})
    /\ LET r == RemoveVLANInterface(port, deleted)
       IN /\ interfaces' = r.interfaces
          /\ portToVLAN' = r.portToVLAN
          /\ kernel' = r.kernel
          /\ vmcall' = [op |-> "Remove", port |-> port,
                        exists |-> port \in DOMAIN portToVLAN,
                        err |-> r.err, vlan |-> NoVLAN]
    /\ UNCHANGED vmFrame

\* vlanManager.GetVLANForPort(port)
CallGetVLANForPort(port) ==
    /\ vmcall' = [op |-> "Get", port |-> port,
                  exists |-> port \in DOMAIN portToVLAN,
                  err |-> FALSE, vlan |-> GetVLANForPort(port)]
    /\ UNCHANGED <<interfaces, portToVLAN, kernel>>
    /\ UNCHANGED vmFrame

NextVlan ==
    \/ \E port \in VlanPorts, fail \in CreateFailures :
          CallCreateVLANInterface(port, fail)
    \/ \E port \in VlanPorts, deleted \in BOOLEAN :
          CallRemoveVLANInterface(port, deleted)
    \/ \E port \in VlanPorts : CallGetVLANForPort(port)

SpecVlan == Init /\ [][NextVlan]_vars

\* the interface name of ports 8080 and 08080
Vlan8080 == <<"v", "l", "a", "n", "8", "0", "8", "0">>

\* C11: a CreateVLANInterface call for a port that has an identity returns
\* that identity without error, and leaves the identity map, the port index
\* and the kernel interfaces as they were
C11_CreateIdempotent ==
    [][\A port \in DOMAIN portToVLAN :
          (vmcall'.op = "Create" /\ vmcall'.port = port)
             => /\ ~vmcall'.err
                /\ portToVLAN[port] \in DOMAIN interfaces
                /\ vmcall'.vlan = interfaces[portToVLAN[port]]
                /\ interfaces' = interfaces
                /\ portToVLAN' = portToVLAN
                /\ kernel' = kernel]_vars

C11_Witness ==
    /\ vmcall.op = "Create"
    /\ vmcall.exists
    /\ ~vmcall.err
    /\ vmcall.port = P8080
    /\ vmcall.vlan.Name = Vlan8080
    /\ vmcall.vlan.Active
    /\ DOMAIN portToVLAN = {P8080, P9090}

\* C12: RemoveVLANInterface returns nil and changes nothing for a port
\* without identity; for a port with an identity and a successful kernel
\* deletion it removes the identity and the port index entry, so that
\* GetVLANForPort has nothing for the port, and leaves the other ports alone
C12_RemoveReleases ==
    [][\A port \in VlanPorts :
          (vmcall'.op = "Remove" /\ vmcall'.port = port)
             => /\ port \notin DOMAIN portToVLAN
                   => /\ ~vmcall'.err
                      /\ interfaces' = interfaces
                      /\ portToVLAN' = portToVLAN
                      /\ kernel' = kernel
                /\ (port \in DOMAIN portToVLAN /\ ~vmcall'.err)
                   => /\ port \notin DOMAIN portToVLAN'
                      /\ portToVLAN[port] \notin DOMAIN interfaces'
                      /\ GetVLANForPort(port)' = NoVLAN
                      /\ \A q \in (DOMAIN portToVLAN) \ {port} :
                            /\ q \in DOMAIN portToVLAN'
                            /\ portToVLAN'[q] = portToVLAN[q]
                            /\ portToVLAN[q] \in DOMAIN interfaces'
                            /\ interfaces'[portToVLAN[q]]
                                  = interfaces[portToVLAN[q]]]_vars

C12_Witness ==
    /\ vmcall.op = "Remove"
    /\ vmcall.exists
    /\ ~vmcall.err
    /\ vmcall.port = P8080
    /\ DOMAIN portToVLAN = {P9090}
    /\ DOMAIN interfaces = {portToVLAN[P9090]}
    /\ Vlan8080 \notin kernel

\* C13: the port index and the identity map are a bijection: every port of
\* the index leads to an identity of that port, no two ports lead to the
\* same interface name, and every identity is the one of a port of the index
C13_Bijection ==
    /\ \A port \in DOMAIN portToVLAN :
          /\ portToVLAN[port] \in DOMAIN interfaces
          /\ interfaces[portToVLAN[port]].Port = port
          /\ interfaces[portToVLAN[port]].Name = portToVLAN[port]
    /\ \A p, q \in DOMAIN portToVLAN :
          portToVLAN[p] = portToVLAN[q] => p = q
    /\ \A name \in DOMAIN interfaces :
          \E port \in DOMAIN portToVLAN : portToVLAN[port] = name

C13_Witness ==
    /\ vmcall.op = "Create"
    /\ vmcall.port = P08080
    /\ vmcall.err
    /\ P8080 \in DOMAIN portToVLAN
    /\ portToVLAN[P8080] = Vlan8080
    /\ P9090 \in DOMAIN portToVLAN

\* the address argument of the ip -6 addr add command
AddrArgument(vlan) == vlan.IPv6Address \o Slash64

\* the decimal form of n: digits without sign and without leading zero
IsDecimalOf(d, n) ==
    /\ AllDigits(d)
    /\ Len(d) > 1 => d[1] # "0"
    /\ Atoi(d).val = n

\* the name, the VLAN id and the addresses the claim C14 expects of an
\* identity
WellFormedIdentity(v) ==
    /\ Atoi(v.Port).ok
    /\ v.VLANID = Atoi(v.Port).val
    /\ Len(v.Name) > 4
    /\ SubSeq(v.Name, 1, 4) = <<"v", "l", "a", "n">>
    /\ IsDecimalOf(SubSeq(v.Name, 5, Len(v.Name)), v.VLANID)
    /\ ~Contains(v.IPv6Address, <<"/", "6", "4">>)
    /\ Occurrences(AddrArgument(v), <<"/", "6", "4">>)
          = {Len(AddrArgument(v)) - 2}

\* C14: an identity registered for a port that parses as n is named vlan
\* followed by the decimal form of n, has VLAN id n and a stored address
\* without prefix length; the address of the ip addr add command ends in /64
C14_NameIdAddress ==
    /\ \A name \in DOMAIN interfaces : WellFormedIdentity(interfaces[name])
    /\ (vmcall.op = "Create" /\ ~vmcall.err) => WellFormedIdentity(vmcall.vlan)

C14_Witness ==
    /\ vmcall.op = "Create"
    /\ ~vmcall.exists
    /\ ~vmcall.err
    /\ vmcall.port = P08080
    /\ portToVLAN[P08080] = Vlan8080
    /\ interfaces[Vlan8080].VLANID = 8080

(***************************************************************************)
(* AuthMiddleware: the login and logout handlers, the middleware the       *)
(* router runs in front of every endpoint, and the clean-up goroutine.     *)
(* Every access to the session table is made under am.mu.                  *)
(***************************************************************************)
\* what the AuthMiddleware and GetServers leave alone
apiFrame ==
    <<servers, nextID, processes, mu, savers, disk, interfaces, portToVLAN,
      kernel, procs, boots, issued, step, vmcall, path, lockA, lockV>>

\* go am.cleanupExpiredSessions()
SpawnCleanup ==
    cleaners' = IF cleaners < MaxCleaners THEN cleaners + 1 ELSE cleaners

\* time.Now().After(session.ExpiresAt)
Expired(session) == now > session.ExpiresAt

\* isValidToken that leaves an expired session in the table
IsValidTokenKeepsExpired(token) ==
    IF token \notin DOMAIN sessions
    THEN [valid |-> FALSE, sessions |-> sessions]
    ELSE IF Expired(sessions[token])
    THEN [valid |-> FALSE, sessions |-> sessions]
    ELSE [valid |-> TRUE, sessions |-> sessions]

\* isValidToken(token): the answer and the session table afterwards
IsValidToken(token) ==
    IF token \notin DOMAIN sessions
    THEN [valid |-> FALSE, sessions |-> sessions]
    ELSE IF Expired(sessions[token])
    THEN [valid |-> FALSE, sessions |-> Without(sessions, token)]
    ELSE [valid |-> TRUE, sessions |-> sessions]

\* the test of Middleware without the call of isValidToken
AdmitsAnyToken(token) == token # NoToken

\* the test of Middleware: token == "" || !am.isValidToken(token)
Admits(token) == token # NoToken /\ IsValidToken(token).valid

\* POST /auth/login: the middleware lets it through without a token
HandleLogin(t, password, generated) ==
    /\ th[t].pc = "idle"
    /\ tok[t] = NoToken
    /\ IF password # Password
       THEN /\ Goto(t, [th[t] EXCEPT !.pc = "ret", !.op = "Login",
                                      !.status = 401])
            /\ UNCHANGED <<sessions, logins, cleaners>>
       ELSE IF ~generated
       THEN /\ Goto(t, [th[t] EXCEPT !.pc = "ret", !.op = "Login",
                                      !.status = 500])
            /\ UNCHANGED <<sessions, logins, cleaners>>
       ELSE LET token == TokenOf(Cardinality(DOMAIN logins) + 1)
            IN /\ sessions' =
                     (token :> [Token |-> token, CreatedAt |-> now,
                                ExpiresAt |-> now + SessionTTL]) @@ sessions
               /\ logins' = (token :> now) @@ logins
               /\ SpawnCleanup
               /\ Goto(t, [th[t] EXCEPT !.pc = "ret", !.op = "Login",
                                         !.ok = TRUE, !.status = 200])
    /\ UNCHANGED <<now, loggedOut, tok, held>>
    /\ UNCHANGED apiFrame

\* the middleware in front of an endpoint other than login: the request
\* goes on to its handler, or is answered 401
Middleware(t, token) ==
    /\ th[t].pc = "idle"
    /\ tok[t] = NoToken
    /\ tok' = [tok EXCEPT ![t] = token]
    /\ sessions' = IF token = NoToken
                   THEN sessions ELSE IsValidToken(token).sessions
    /\ IF Admits(token)
       THEN UNCHANGED th
       ELSE Goto(t, [th[t] EXCEPT !.pc = "ret", !.op = "Auth",
                                   !.status = 401])
    /\ UNCHANGED <<now, logins, loggedOut, cleaners, held>>
    /\ UNCHANGED apiFrame

\* the middleware has called next.ServeHTTP for the request of t
Admitted(t) == th[t].pc = "idle" /\ tok[t] # NoToken

\* HandleLogout that answers without delete(am.sessions, token)
HandleLogoutKeepsSession(t) ==
    /\ th[t].pc = "idle"
    /\ IF tok[t] = NoToken
       THEN /\ Goto(t, [th[t] EXCEPT !.pc = "ret", !.op = "Logout",
                                      !.status = 400])
            /\ UNCHANGED <<sessions, loggedOut>>
       ELSE /\ UNCHANGED sessions
            /\ loggedOut' = loggedOut \cup {tok[t]}
            /\ Goto(t, [th[t] EXCEPT !.pc = "ret", !.op = "Logout",
                                      !.ok = TRUE, !.status = 200])
    /\ UNCHANGED <<now, logins, cleaners, tok, held>>
    /\ UNCHANGED apiFrame

\* POST /auth/logout; loggedOut records the tokens it has answered 200 for
HandleLogout(t) ==
    /\ th[t].pc = "idle"
    /\ IF tok[t] = NoToken
       THEN /\ Goto(t, [th[t] EXCEPT !.pc = "ret", !.op = "Logout",
                                      !.status = 400])
            /\ UNCHANGED <<sessions, loggedOut>>
       ELSE /\ sessions' = Without(sessions, tok[t])
            /\ loggedOut' = loggedOut \cup {tok[t]}
            /\ Goto(t, [th[t] EXCEPT !.pc = "ret", !.op = "Logout",
                                      !.ok = TRUE, !.status = 200])
    /\ UNCHANGED <<now, logins, cleaners, tok, held>>
    /\ UNCHANGED apiFrame

\* the goroutine cleanupExpiredSessions
CleanupExpiredSessions ==
    /\ cleaners > 0
    /\ cleaners' = cleaners - 1
    /\ sessions' = [token \in {k \in DOMAIN sessions : ~Expired(sessions[k])}
                       |-> sessions[token]]
    /\ UNCHANGED <<now, logins, loggedOut, tok, held, th>>
    /\ UNCHANGED apiFrame

\* the monotonic clock of time.Now() moves on
Tick ==
    /\ now' = now + TickHours
    /\ UNCHANGED <<sessions, logins, loggedOut, cleaners, tok, held, th>>
    /\ UNCHANGED apiFrame

(***************************************************************************)
(* GET /servers: handleGetServers and GetServers.  The slice GetServers    *)
(* returns holds the *Server pointers of the registry; held is the value   *)
(* of each record at the return of GetServers.                             *)
(***************************************************************************)
\* servers := a.GetServers()
HandleGetServers(t) ==
    /\ th[t].pc = "idle"
    /\ mu = "free"
    /\ held' = [held EXCEPT ![t] = servers]
    /\ Goto(t, [th[t] EXCEPT !.pc = "get_encode", !.op = "GetServers"])
    /\ UNCHANGED <<sessions, now, logins, loggedOut, cleaners, tok>>
    /\ UNCHANGED apiFrame

\* the record a pointer of the slice leads to: the record of the registry
\* while the registry has it
HeldRecord(t, id) ==
    IF id \in DOMAIN servers THEN servers[id] ELSE held[t][id]

\* json.NewEncoder(w).Encode(servers), without a.mu
EncodeServers(t) ==
    /\ th[t].pc = "get_encode"
    /\ held' = [held EXCEPT ![t] = EmptyMap]
    /\ Answer(t, TRUE, 200)
    /\ UNCHANGED <<sessions, now, logins, loggedOut, cleaners, tok>>
    /\ UNCHANGED apiFrame

\* the response is written and the goroutine of the request ends
ApiReturn(t) ==
    /\ th[t].pc = "ret"
    /\ Goto(t, IdleThread)
    /\ tok' = [tok EXCEPT ![t] = NoToken]
    /\ UNCHANGED <<sessions, now, logins, loggedOut, cleaners, held>>
    /\ UNCHANGED apiFrame

(***************************************************************************)
(* SpecApi: the API behind the middleware.  Every goroutine logs in, logs  *)
(* out and sends requests with a token it has seen, made up or left out;   *)
(* the requests of one client go on to create, start and list the servers. *)
(***************************************************************************)
\* the tokens a client sends
ClientTokens == {NoToken, ForgedToken} \cup DOMAIN logins

NextApi ==
    \/ \E t \in Threads, password \in Passwords, generated \in BOOLEAN :
          /\ Cardinality(DOMAIN logins) < MaxTokens
          /\ HandleLogin(t, password, generated)
    \/ \E t \in Threads, token \in ClientTokens : Middleware(t, token)
    \/ \E t \in Threads : Admitted(t) /\ HandleLogout(t)
    \/ \E body \in ValidBodies :
          /\ Admitted(Client)
          /\ IdsLeft(MaxApiID)
          /\ HandleCreate(Client, body, "none")
    \/ CreateServerStep(Client)
    \/ CreateWriteback(Client)
    \/ \E id \in ReqIds : Admitted(Client) /\ StartCheck(Client, id)
    \/ \E launched \in BOOLEAN : StartLaunch(Client, launched)
    \/ StartSet(Client)
    \/ \E s \in Slots : ChildExit(s)
    \/ \E s \in Slots : Watcher(s)
    \/ Admitted(Client) /\ HandleGetServers(Client)
    \/ EncodeServers(Client)
    \/ \E t \in Threads : ApiReturn(t)
    \/ now + TickHours <= MaxTime /\ Tick
    \/ CleanupExpiredSessions

SpecApi == Init /\ [][NextApi]_vars

\* C15: the records of the slice GetServers returned keep the values they
\* had when GetServers returned, whatever happens afterwards
C15_GetServersSnapshot ==
    \A t \in Threads :
       th[t].pc = "get_encode"
          => \A id \in DOMAIN held[t] : HeldRecord(t, id) = held[t][id]

\* the middleware lets the request of t through to its handler
Accepts(t) == tok[t] = NoToken /\ tok'[t] # NoToken /\ th'[t].pc = "idle"

\* the middleware answers the request of t with 401
Rejects(t) ==
    /\ th[t].pc = "idle"
    /\ th'[t].pc = "ret"
    /\ th'[t].op = "Auth"
    /\ th'[t].status = 401

\* C16: the middleware lets a request through only with a token a login
\* issued, that no logout has answered and that is not older than 24 hours;
\* no handler other than login starts for a request it has not let
\* through; a request it answers 401 changes nothing of the supervisor and
\* of the VLAN manager
C16_OnlyValidTokensPass ==
    [][\A t \in Threads :
          /\ Accepts(t)
             => /\ tok'[t] \in DOMAIN logins
                /\ tok'[t] \notin loggedOut
                /\ now <= logins[tok'[t]] + 24
          /\ (th[t].pc = "idle" /\ th'[t].pc # "idle"
                 /\ th'[t].op \notin {"Auth", "Login"})
             => (tok[t] # NoToken /\ tok[t] \in DOMAIN logins)
          /\ Rejects(t)
             => /\ tok'[t] \in {NoToken, ForgedToken}
                      \cup loggedOut
                      \cup {k \in DOMAIN logins : now > logins[k] + 24}
                /\ servers' = servers
                /\ nextID' = nextID
                /\ processes' = processes
                /\ procs' = procs
                /\ disk' = disk
                /\ interfaces' = interfaces
                /\ portToVLAN' = portToVLAN
                /\ kernel' = kernel]_vars

C16_Witness ==
    /\ th[Client].op = "Create"
    /\ th[Client].pc = "ret"
    /\ th[Client].status = 200
    /\ tok[Client] = TokenOf(1)
    /\ th[Client].newid \in DOMAIN servers

\* C17: the middleware never lets a request through with a token a logout
\* has answered
C17_LoggedOutStaysOut ==
    [][\A t \in Threads : Accepts(t) => tok'[t] \notin loggedOut]_vars

C17_Witness ==
    \E t \in Threads :
       /\ th[t].op = "Auth"
       /\ th[t].pc = "ret"
       /\ th[t].status = 401
       /\ tok[t] \in loggedOut
       /\ now <= logins[tok[t]] + 24
       /\ \E k \in DOMAIN sessions : k # tok[t]

\* C18: the middleware lets a request through at most 24 hours after the
\* login of its token; a request with an older token is answered 401 and
\* leaves no session of that token in the table; the clock never goes back,
\* so that an expired token stays expired
C18_ExpiresAfter24Hours ==
    [][/\ now' >= now
       /\ \A t \in Threads :
             /\ Accepts(t) => now <= logins[tok'[t]] + 24
             /\ (th[t].pc = "idle" /\ tok[t] = NoToken /\ th'[t].pc = "ret"
                    /\ tok'[t] \in DOMAIN logins
                    /\ now > logins[tok'[t]] + 24)
                => /\ Rejects(t)
                   /\ tok'[t] \notin DOMAIN sessions'
       /\ \A k \in DOMAIN sessions' : k \in DOMAIN sessions
             \/ (k \notin DOMAIN logins /\ logins'[k] = now)]_vars

C18_Witness ==
    \E t \in Threads :
       /\ th[t].op = "Auth"
       /\ th[t].pc = "ret"
       /\ th[t].status = 401
       /\ tok[t] \in DOMAIN logins
       /\ tok[t] \notin loggedOut
       /\ now > logins[tok[t]] + 24
       /\ tok[t] \notin DOMAIN sessions

\* C19: in the delete request the record is deleted before the identity of
\* its port is released, and no other step of the request touches the VLAN
\* manager; a release that fails after the deletion is answered 206 and
\* the record stays deleted; an unknown id is answered 404 without release
C19_DeleteThenRelease ==
    [][\A t \in Threads :
          /\ th[t].pc = "delete_vlan" => th[t].id \notin DOMAIN servers
          /\ (th[t].pc = "delete_vlan" /\ th'[t].pc = "ret")
             => /\ th'[t].id \notin DOMAIN servers'
                /\ (th[t].port \in DOMAIN portToVLAN
                       /\ th[t].port \in DOMAIN portToVLAN')
                   => th'[t].status = 206
                /\ th'[t].status = 206
                   => /\ th[t].port \in DOMAIN portToVLAN'
                      /\ th'[t].ok
                /\ th'[t].status \in {200, 206}
          /\ (th'[t].op = "Delete" /\ th[t].pc \notin {"delete_vlan", "ret"})
             => /\ interfaces' = interfaces
                /\ portToVLAN' = portToVLAN
                /\ kernel' = kernel
                /\ th'[t].status # 206
          /\ (th'[t].op = "Delete" /\ th[t].pc # "ret" /\ th'[t].pc = "ret"
                 /\ th'[t].status = 404)
             => /\ th[t].pc = "delete_check"
                /\ th[t].id \notin DOMAIN servers
                /\ th[t].port = EmptyStr]_vars

C19_Witness ==
    /\ th[Client].op = "Delete"
    /\ th[Client].pc = "ret"
    /\ th[Client].status = 206
    /\ th[Client].ok
    /\ th[Client].id \notin DOMAIN servers
    /\ DOMAIN portToVLAN # {}

P0 == <<"0">>

PNeg5 == <<"-", "5">>

\* the JSON bodies of SpecValid
RequestBodies ==
    Bodies \cup
    { [name |-> "web3", port |-> P0, directory |-> "/srv/app"],
      [name |-> "web3", port |-> PNeg5, directory |-> "/srv/app"] }

NextValid ==
    \/ \E body \in RequestBodies, fail \in CreateFailures :
          IdsLeft(MaxID) /\ HandleCreate(Client, body, fail)
    \/ CreateServerStep(Client)
    \/ CreateWriteback(Client)
    \/ \E id \in ReqIds, body \in RequestBodies :
          HandleUpdate(Client, id, body)
    \/ Return(Client)

SpecValid == Init /\ [][NextValid]_vars

\* a body with three non-empty fields and a port that is a positive integer
PositivePortBody(body) ==
    /\ body.name # ""
    /\ body.port # EmptyStr
    /\ body.directory # ""
    /\ Atoi(body.port).ok
    /\ Atoi(body.port).val > 0

\* the request of t is answered 400 and nothing of the supervisor and of
\* the VLAN manager has changed
Rejected400(t) ==
    /\ th'[t].pc = "ret"
    /\ th'[t].status = 400
    /\ servers' = servers
    /\ nextID' = nextID
    /\ interfaces' = interfaces
    /\ portToVLAN' = portToVLAN
    /\ kernel' = kernel

\* C21: a create or update request with an empty field or with a port that
\* is not a positive integer is answered 400, and leaves the registry,
\* nextID and the VLAN manager as they were
C21_BadBodyRejected ==
    [][\A t \in Threads, body \in RequestBodies :
          ~PositivePortBody(body)
             => /\ \A fail \in CreateFailures :
                      HandleCreate(t, body, fail) => Rejected400(t)
                /\ \A id \in ReqIds :
                      HandleUpdate(t, id, body) => Rejected400(t)]_vars

\* the call of t returns false, and the registry, nextID, the process table,
\* the child processes, the scheduled saves and the file are as before
NotFound(t) ==
    /\ th'[t].pc = "ret"
    /\ ~th'[t].ok
    /\ servers' = servers
    /\ nextID' = nextID
    /\ processes' = processes
    /\ procs' = procs
    /\ savers' = savers
    /\ disk' = disk

\* C22: for an id the registry does not have, Update, Delete, Start and
\* Stop return false and Status reports exists=false, without any change of
\* the registry, nextID, the process table and the child processes and
\* without a scheduled save
C22_UnknownIdIsNoOp ==
    [][\A t \in Threads, id \in ReqIds :
          id \notin DOMAIN servers
             => /\ StartCheck(t, id) => NotFound(t)
                /\ HandleStop(t, id) => NotFound(t)
                /\ \A body \in ValidBodies :
                      HandleUpdate(t, id, body)
                         => (NotFound(t) /\ th'[t].status = 404)
                /\ (th[t].id = id /\ DeleteCheck(t))
                      => (NotFound(t) /\ th'[t].status = 404)
                /\ HandleStatus(t, id)
                      => (NotFound(t) /\ th'[t].status = 404)]_vars

C22_Witness ==
    /\ th[Client].op = "Delete"
    /\ th[Client].pc = "ret"
    /\ th[Client].status = 404
    /\ ~th[Client].ok
    /\ th[Client].id = <<"2">>
    /\ DOMAIN servers = {<<"1">>}
    /\ servers[<<"1">>].Running

\* the goroutine of t takes a step of a Start, Stop, Update or Delete call
\* for server x
StepsOn(t, x) ==
    /\ th'[t] # th[t]
    /\ th'[t].op \in {"Start", "Stop", "Update", "Delete"}
    /\ th'[t].id = x

\* the record, the process-table entry and the child processes of server y
\* are as before
Untouched(y) ==
    /\ y \in DOMAIN servers
          => (y \in DOMAIN servers' /\ servers'[y] = servers[y])
    /\ y \in DOMAIN processes <=> y \in DOMAIN processes'
    /\ y \in DOMAIN processes => processes'[y] = processes[y]
    /\ \A s \in Slots : procs[s].id = y => procs'[s] = procs[s]

\* C23: a step of Start, Stop, Update or Delete for server x, and the exit
\* of a child of x and its watcher, leave the record, the process-table
\* entry and the children of every other server y as they were
C23_OtherServersUntouched ==
    [][\A x \in ReqIds, y \in ReqIds :
          x # y
             => /\ \A t \in Threads : StepsOn(t, x) => Untouched(y)
                /\ \A s \in Slots :
                      (procs[s].id = x /\ (ChildExit(s) \/ Watcher(s)))
                         => Untouched(y)]_vars

C23_Witness ==
    /\ th[Client].op = "Stop"
    /\ th[Client].pc = "ret"
    /\ ~th[Client].ok
    /\ th[Client].id = <<"1">>
    /\ DOMAIN servers = {<<"1">>, <<"2">>}
    /\ servers[<<"1">>].Running
    /\ servers[<<"2">>].Running
    /\ DOMAIN processes = {<<"1">>, <<"2">>}

(***************************************************************************)
(* SpecLock: the locking of the supervisor (a.mu) and of the VLAN manager  *)
(* (vm.mu).  A goroutine runs a path: the sequence of the lock, unlock,    *)
(* blocking and go statements of one way through a function, in the order  *)
(* of the code.  Every way through every function is taken, whatever the   *)
(* data.  lockA and lockV are the holders of the two mutexes.              *)
(***************************************************************************)
\* StartServer with cmd.Start() inside the first critical section
StartServerPathsLockedLaunch ==
    { <<"a.Lock", "a.Unlock">>,
      <<"a.Lock", "cmd.Start", "a.Unlock">>,
      <<"a.Lock", "cmd.Start", "a.Unlock", "a.Lock", "a.Unlock",
        "go watcher">> }

\* StartServer: rejected; cmd.Start() fails; started, the watcher is spawned
StartServerPaths ==
    { <<"a.Lock", "a.Unlock">>,
      <<"a.Lock", "a.Unlock", "cmd.Start">>,
      <<"a.Lock", "a.Unlock", "cmd.Start", "a.Lock", "a.Unlock",
        "go watcher">> }

\* StopServer: rejected or handle missing; Kill fails; killed and cleared
StopServerPaths ==
    { <<"a.Lock", "a.Unlock">>,
      <<"a.Lock", "a.Unlock", "Kill">>,
      <<"a.Lock", "a.Unlock", "Kill", "a.Lock", "a.Unlock">> }

\* UpdateServer that calls StopServer without a.mu.Unlock() before it
UpdateServerPathsNoUnlock ==
    { <<"a.Lock", "a.Unlock">>, <<"a.Lock", "go saveConfig", "a.Unlock">> }
    \cup { <<"a.Lock">> \o p \o <<"go saveConfig", "a.Unlock">> :
              p \in StopServerPaths }

\* UpdateServer: unknown id; stopped server; running server, with the
\* unlock, StopServer, lock window.  The last unlock is the deferred one
UpdateServerPaths ==
    { <<"a.Lock", "a.Unlock">>, <<"a.Lock", "go saveConfig", "a.Unlock">> }
    \cup { <<"a.Lock", "a.Unlock">> \o p
              \o <<"a.Lock", "go saveConfig", "a.Unlock">> :
              p \in StopServerPaths }

\* DeleteServer: the same three ways
DeleteServerPaths ==
    { <<"a.Lock", "a.Unlock">>, <<"a.Lock", "go saveConfig", "a.Unlock">> }
    \cup { <<"a.Lock", "a.Unlock">> \o p
              \o <<"a.Lock", "go saveConfig", "a.Unlock">> :
              p \in StopServerPaths }

\* CreateServer
CreateServerPath == <<"a.Lock", "go saveConfig", "a.Unlock">>

\* GetServers and GetServerStatus
ReadPath == <<"a.Lock", "a.Unlock">>

\* CreateVLANInterface and RemoveVLANInterface: without and with ip commands
VLANPaths ==
    { <<"vm.Lock", "vm.Unlock">>, <<"vm.Lock", "ip", "vm.Unlock">> }

\* the handlers: what a request goroutine runs
HandlerPaths ==
    StartServerPaths \cup StopServerPaths \cup UpdateServerPaths
    \cup {ReadPath}
    \cup VLANPaths
    \cup { v \o CreateServerPath \o <<"a.Lock", "a.Unlock">> :
              v \in VLANPaths }
    \cup { <<"a.Lock", "a.Unlock">> \o d : d \in DeleteServerPaths }
    \cup { <<"a.Lock", "a.Unlock">> \o d \o r :
              d \in DeleteServerPaths, r \in VLANPaths }

\* the watcher goroutine of StartServer
WatcherPath == <<"cmd.Wait", "a.Lock", "a.Unlock">>

\* saveConfig
SavePath == <<"a.Lock", "MarshalIndent", "WriteFile", "a.Unlock">>

\* what the lock model leaves alone
lockFrame ==
    <<servers, nextID, processes, mu, savers, disk, interfaces, portToVLAN,
      kernel, procs, th, boots, issued, step, sessions, now, logins,
      loggedOut, cleaners, tok, held, vmcall>>

\* the statement goroutine g is at
At(g, stmt) == path[g] # <<>> /\ Head(path[g]) = stmt

\* g goes on to its next statement
Advance(g) == path' = [path EXCEPT ![g] = Tail(path[g])]

\* a request arrives and its goroutine starts on a way through a handler
BeginRequest(g, p) ==
    /\ path[g] = <<>>
    /\ path' = [path EXCEPT ![g] = p]
    /\ UNCHANGED <<lockA, lockV>>
    /\ UNCHANGED lockFrame

\* a.mu.Lock(): waits until the mutex is free
LockSupervisor(g) ==
    /\ At(g, "a.Lock")
    /\ lockA = Nobody
    /\ lockA' = g
    /\ Advance(g)
    /\ UNCHANGED lockV
    /\ UNCHANGED lockFrame

\* a.mu.Unlock()
UnlockSupervisor(g) ==
    /\ At(g, "a.Unlock")
    /\ lockA' = Nobody
    /\ Advance(g)
    /\ UNCHANGED lockV
    /\ UNCHANGED lockFrame

\* vm.mu.Lock()
LockVLAN(g) ==
    /\ At(g, "vm.Lock")
    /\ lockV = Nobody
    /\ lockV' = g
    /\ Advance(g)
    /\ UNCHANGED lockA
    /\ UNCHANGED lockFrame

\* vm.mu.Unlock()
UnlockVLAN(g) ==
    /\ At(g, "vm.Unlock")
    /\ lockV' = Nobody
    /\ Advance(g)
    /\ UNCHANGED lockA
    /\ UNCHANGED lockFrame

\* the calls that wait for a process: of the child, and of the ip command
ProcessCalls == {"cmd.Start", "Kill", "cmd.Wait"}

BlockingCalls == ProcessCalls \cup {"ip", "MarshalIndent", "WriteFile"}

\* a blocking call returns
BlockingCall(g) ==
    /\ path[g] # <<>>
    /\ Head(path[g]) \in BlockingCalls
    /\ Advance(g)
    /\ UNCHANGED <<lockA, lockV>>
    /\ UNCHANGED lockFrame

\* the goroutines no go statement has started, or that have ended
Spare == {h \in Goroutines \ Threads : path[h] = <<>>}

\* go a.saveConfig() and go func() { cmd.Wait() ... }(): the statement
\* returns at once; the model starts no more than MaxSpawned goroutines
GoStatement(g) ==
    /\ path[g] # <<>>
    /\ Head(path[g]) \in {"go saveConfig", "go watcher"}
    /\ path' =
          IF Spare = {}
          THEN [path EXCEPT ![g] = Tail(path[g])]
          ELSE [path EXCEPT ![g] = Tail(path[g]),
                            ![Min(Spare)] =
                                IF Head(path[g]) = "go watcher"
                                THEN WatcherPath ELSE SavePath]
    /\ UNCHANGED <<lockA, lockV>>
    /\ UNCHANGED lockFrame

NextLock ==
    \/ \E g \in Threads, p \in HandlerPaths : BeginRequest(g, p)
    \/ \E g \in Goroutines : LockSupervisor(g)
    \/ \E g \in Goroutines : UnlockSupervisor(g)
    \/ \E g \in Goroutines : LockVLAN(g)
    \/ \E g \in Goroutines : UnlockVLAN(g)
    \/ \E g \in Goroutines : BlockingCall(g)
    \/ \E g \in Goroutines : GoStatement(g)

SpecLock == Init /\ [][NextLock]_vars

\* C24: a goroutine that is at cmd.Start(), at Kill() or at cmd.Wait() does
\* not hold the supervisor lock
C24_NoProcessCallUnderLock ==
    \A g \in Goroutines :
       (path[g] # <<>> /\ Head(path[g]) \in {"cmd.Start", "Kill", "cmd.Wait"})
          => lockA # g

C24_Witness ==
    \E g \in Threads, h \in Goroutines :
       /\ g # h
       /\ At(g, "Kill")
       /\ Len(path[g]) > 3
       /\ At(h, "cmd.Wait")
       /\ lockA \notin {Nobody, g, h}

\* g can take its next step
CanStep(g) ==
    /\ path[g] # <<>>
    /\ Head(path[g]) = "a.Lock" => lockA = Nobody
    /\ Head(path[g]) = "vm.Lock" => lockV = Nobody

\* C25: a goroutine that is about to lock a mutex holds neither mutex, a
\* goroutine that is about to unlock a mutex holds it, a goroutine that has
\* ended holds none, and while a goroutine has a statement left some
\* goroutine can take a step
C25_LockDiscipline ==
    /\ \A g \in Goroutines :
          /\ At(g, "a.Lock") => (lockA # g /\ lockV # g)
          /\ At(g, "vm.Lock") => (lockA # g /\ lockV # g)
          /\ At(g, "a.Unlock") => lockA = g
          /\ At(g, "vm.Unlock") => lockV = g
          /\ path[g] = <<>> => (lockA # g /\ lockV # g)
          /\ ~(lockA = g /\ lockV = g)
    /\ (\E g \in Goroutines : path[g] # <<>>)
          => \E g \in Goroutines : CanStep(g)

C25_Witness ==
    \E g \in Threads, h \in Threads :
       /\ g # h
       /\ path[g] = <<"a.Lock", "go saveConfig", "a.Unlock">>
       /\ lockA = h
       /\ \E k \in Goroutines \ Threads : At(k, "a.Lock")

(***************************************************************************)
(* The save and the callers.                                               *)
(***************************************************************************)
\* the positions of CreateServer, StartServer, StopServer, UpdateServer and
\* DeleteServer whose next statement is a.mu.Lock()
LockWaits ==
    {"create_server", "start_set", "stop_clear", "update_write",
     "delete_remove"}

\* the caller of request t waits for a.mu while saveConfig holds it
BlockedBySave(t) == th[t].pc \in LockWaits /\ mu = "save"

\* C26: no caller of Create, Update, Delete, Start or Stop is at a
\* a.mu.Lock() while saveConfig holds a.mu for its serialization and its
\* write of the file
C26_SaveNeverBlocksCaller == \A t \in Threads : ~BlockedBySave(t)

(***************************************************************************)
(* SpecLive: the supervisor under one request at a time, with the          *)
(* children's exits, the watchers and the saveConfig goroutines, and with  *)
(* fair scheduling: a watcher that waits at a.mu.Lock() gets the mutex     *)
(* when it is free again and again (sync.Mutex hands over to a starving    *)
(* waiter), and a save that holds the mutex finishes.                      *)
(***************************************************************************)
NextLive ==
    \/ \E body \in ValidBodies :
          IdsLeft(MaxSysID) /\ HandleCreate(Client, body, "none")
    \/ CreateServerStep(Client)
    \/ CreateWriteback(Client)
    \/ \E id \in ReqIds : StartCheck(Client, id)
    \/ \E launched \in BOOLEAN : StartLaunch(Client, launched)
    \/ StartSet(Client)
    \/ \E s \in Slots : ChildExit(s)
    \/ \E s \in Slots : Watcher(s)
    \/ \E id \in ReqIds : HandleStop(Client, id)
    \/ NestedStop(Client)
    \/ \E killed \in BOOLEAN : StopKill(Client, killed)
    \/ StopClear(Client)
    \/ \E id \in ReqIds, body \in ValidBodies : HandleUpdate(Client, id, body)
    \/ UpdateWrite(Client)
    \/ \E id \in ReqIds : HandleDelete(Client, id)
    \/ DeleteCheck(Client)
    \/ DeleteRemove(Client)
    \/ DeleteVLAN(Client, TRUE)
    \/ Return(Client)
    \/ SaveBegin
    \/ \E written \in BOOLEAN : SaveWrite(written)

Fairness ==
    /\ \A s \in Slots : SF_vars(Watcher(s))
    /\ WF_vars(\E written \in BOOLEAN : SaveWrite(written))

SpecLive == Init /\ [][NextLive]_vars /\ Fairness

\* the child in slot s has ended and its watcher goroutine exists
ExitedWatched(s) == procs[s].state = "exited" /\ procs[s].watched

\* the step of the watcher of slot s: its goroutine ends
Reaps(s) == procs[s].state = "exited" /\ procs'[s].state = "free"

\* C27: under fair scheduling, once the child of a running server has
\* ended, by itself or by a kill, its watcher eventually takes its step,
\* and that step removes the server's process-table entry and leaves the
\* record's running flag false
C27_WatcherReaps ==
    /\ \A s \in Slots : ExitedWatched(s) ~> (procs[s].state = "free")
    /\ [][\A s \in Slots :
            Reaps(s) =>
               /\ procs[s].id \notin DOMAIN processes'
               /\ procs[s].id \in DOMAIN servers'
                     => ~servers'[procs[s].id].Running]_vars

\* the start was answered true and the child has since ended by itself and
\* been reaped: the record is stopped without any stop request
C27_Witness ==
    /\ th[Client].pc = "ret"
    /\ th[Client].op = "Start"
    /\ th[Client].ok
    /\ th[Client].id \in DOMAIN servers
    /\ ~servers[th[Client].id].Running
    /\ th[Client].id \notin DOMAIN processes
    /\ \A s \in Slots : procs[s].state = "free"

(***************************************************************************)
(* The failures of the launch and of the ip commands.                      *)
(***************************************************************************)
\* request t goes from cmd.Start() to its answer: the launch failed
LaunchFailed(t) == th[t].pc = "start_launch" /\ th'[t].pc = "ret"

\* C28: when cmd.Start() fails, StartServer returns false and the step
\* changes no record, so the running flag stays as it was, adds no
\* process-table entry, and starts neither a child nor a watcher
C28_LaunchFailureIsNoOp ==
    [][\A t \in Threads :
          LaunchFailed(t) =>
             /\ ~th'[t].ok
             /\ th'[t].cmd = 0
             /\ servers' = servers
             /\ processes' = processes
             /\ procs' = procs]_vars

\* a start was answered false on a stopped record while another request is
\* at its own launch of the same server
C28_Witness ==
    \E t \in Threads, u \in Threads :
       /\ t # u
       /\ th[t].pc = "ret"
       /\ th[t].op = "Start"
       /\ ~th[t].ok
       /\ th[t].id \in DOMAIN servers
       /\ ~servers[th[t].id].Running
       /\ th[t].id \notin DOMAIN processes
       /\ \A s \in Slots : procs[s].state = "free"
       /\ th[u].pc = "start_launch"
       /\ th[u].id = th[t].id

\* C29: a CreateVLANInterface(port) that returns an error returns no
\* identity and leaves vm.interfaces and vm.portToVLAN as they were, so
\* GetVLANForPort(port) is still nil; when the port does not parse or
\* the interface was not created the kernel is as it was, and when the
\* bring-up or the address assignment failed the created interface remains
C29_FailedCreateRegistersNothing ==
    [][\A port \in VlanPorts, fail \in CreateFailures :
          (CallCreateVLANInterface(port, fail) /\ vmcall'.err) =>
             /\ vmcall'.vlan = NoVLAN
             /\ interfaces' = interfaces
             /\ portToVLAN' = portToVLAN
             /\ GetVLANForPort(port)' = NoVLAN
             /\ (~Atoi(port).ok \/ fail \in {"main", "add"})
                   => kernel' = kernel
             /\ (Atoi(port).ok /\ fail \in {"up", "addr"})
                   => /\ InterfaceName(Atoi(port).val) \notin kernel
                      /\ kernel' =
                           kernel \cup {InterfaceName(Atoi(port).val)}]_vars

\* a create has failed after ip link add: the kernel has the interface and
\* the manager has registered nothing
C29_Witness ==
    /\ vmcall.op = "Create"
    /\ vmcall.err
    /\ Atoi(vmcall.port).ok
    /\ InterfaceName(Atoi(vmcall.port).val) \in kernel
    /\ interfaces = EmptyMap
    /\ portToVLAN = EmptyMap

\* C30: a RemoveVLANInterface(port) whose ip link delete fails returns the
\* error and leaves vm.interfaces and vm.portToVLAN as they were:
\* GetVLANForPort(port) returns the identity it returned before, and a
\* CreateVLANInterface(port) called next returns that identity without an
\* error and changes neither the maps nor the kernel
C30_FailedRemoveKeepsIdentity ==
    [][\A port \in VlanPorts, deleted \in BOOLEAN :
          (CallRemoveVLANInterface(port, deleted) /\ vmcall'.err) =>
             /\ interfaces' = interfaces
             /\ portToVLAN' = portToVLAN
             /\ kernel' = kernel
             /\ GetVLANForPort(port) # NoVLAN
             /\ GetVLANForPort(port)' = GetVLANForPort(port)
             /\ \A fail \in CreateFailures :
                   /\ ~CreateVLANInterface(port, fail)'.err
                   /\ CreateVLANInterface(port, fail)'.vlan
                         = GetVLANForPort(port)
                   /\ CreateVLANInterface(port, fail)'.interfaces
                         = interfaces'
                   /\ CreateVLANInterface(port, fail)'.portToVLAN
                         = portToVLAN'
                   /\ CreateVLANInterface(port, fail)'.kernel = kernel']_vars

\* a remove has just failed and the port still has its identity
C30_Witness ==
    /\ vmcall.op = "Remove"
    /\ vmcall.err
    /\ vmcall.port \in DOMAIN portToVLAN
    /\ GetVLANForPort(vmcall.port) # NoVLAN
    /\ GetVLANForPort(vmcall.port).Name \in kernel

(***************************************************************************)
(* The registry, the process table and the identities together.            *)
(***************************************************************************)
\* C31: no two records of the registry have the same listen port
C31_PortsUnique ==
    \A a \in DOMAIN servers, b \in DOMAIN servers :
       a # b => servers[a].Port # servers[b].Port

\* a Stop, Update or Delete request for id has begun and its goroutine has
\* not ended
Stopping(id) ==
    \E t \in Threads :
       /\ th[t].pc # "idle"
       /\ th[t].op \in {"Stop", "Update", "Delete"}
       /\ th[t].id = id

\* C32: while no Stop, Update or Delete for its id is in progress, a live
\* child that StartServer has recorded for a registered id is the child
\* the process table holds under the id, and the record is running
C32_LiveChildTracked ==
    \A s \in Slots :
       (/\ procs[s].state = "alive"
        /\ procs[s].watched
        /\ procs[s].id \in DOMAIN servers
        /\ ~Stopping(procs[s].id))
       => /\ procs[s].id \in DOMAIN processes
          /\ processes[procs[s].id] = s
          /\ servers[procs[s].id].Running

\* C33: every key of the process table is the id of a record of the
\* registry
C33_HandlesOfRecords == DOMAIN processes \subseteq DOMAIN servers

\* C34: a record that carries an IPv6 address carries the interface name
\* and the address CreateVLANInterface derives from the record's port
C34_IdentityOfCurrentPort ==
    \A id \in DOMAIN servers :
       servers[id].IPv6Address # EmptyStr
          => /\ Atoi(servers[id].Port).ok
             /\ servers[id].VLANInterface
                   = NewVLANInterface(servers[id].Port).Name
             /\ servers[id].IPv6Address
                   = NewVLANInterface(servers[id].Port).IPv6Address

\* no request is in flight
Quiescent == \A t \in Threads : th[t].pc = "idle"

\* C35: when no request is in flight, every port the VLAN manager has an
\* identity for is the port of a record of the registry
C35_NoOrphanIdentity ==
    Quiescent =>
       \A port \in DOMAIN portToVLAN :
          \E id \in DOMAIN servers : servers[id].Port = port

\* the registry as a restart would read it from the records in memory: the
\* running flag is not compared
Stopped(srvs) == [id \in DOMAIN srvs |-> [srvs[id] EXCEPT !.Running = FALSE]]

\* no request is in flight and no saveConfig goroutine is scheduled or
\* running
Settled == Quiescent /\ savers = 0 /\ mu = "free"

\* C36: when no request is in flight and every save has finished, the
\* file holds the records of the registry, but for the running flag, and
\* nextID
C36_FileEqualsRegistry ==
    Settled =>
       /\ LoadConfig(disk).servers = Stopped(servers)
       /\ LoadConfig(disk).nextID = nextID

\* DeleteServer of request t has returned true
DeletedTrue(t) ==
    th[t].op = "Delete" /\ th[t].ok /\ th[t].pc \in {"delete_vlan", "ret"}

\* C37: no two DeleteServer calls for the same id return true
C37_OneDeleteWins ==
    \A t1, t2 \in Threads :
       (t1 # t2 /\ DeletedTrue(t1) /\ DeletedTrue(t2))
          => th[t1].id # th[t2].id

\* request t takes the step in which UpdateServer writes the fields and
\* returns true
UpdateWrites(t) ==
    /\ th'[t].op = "Update"
    /\ th[t].pc \in {"idle", "update_write"}
    /\ th'[t].pc = "ret"
    /\ th'[t].ok

\* C38: at the step in which UpdateServer writes the fields and returns
\* true, the record of the id is in the registry
C38_UpdateWritesRegistered ==
    [][\A t \in Threads :
          UpdateWrites(t) => th'[t].id \in DOMAIN servers]_vars

====
